---------------------------- MODULE Spec2Model ----------------------------
(***************************************************************************)
(* A model of OSKAR's pose-to-geometry pipeline: the exponential pose      *)
(* smoother, the detection-mask filter, the Schlemer stick resolver and    *)
(* the trail buffer of SchlemerVisualizer and its subclasses, the spring   *)
(* step and the springs of SpringSplineVisualizer, and the motion sensors  *)
(* that drive the trail parameters and the elasticity.                     *)
(*                                                                         *)
(* Numbers.  Coordinates are integers.  A keypoint confidence c in [0,1]   *)
(* is held in hundredths (c = 10 is 0.1).  The smoothing factor is held as *)
(* a numerator over FactorDen.  In the smoothing specification the poses   *)
(* the detector reports are a whole number of Unit apart, Unit being       *)
(* FactorDen^MaxCallbacks, so that the at most MaxCallbacks divisions by   *)
(* FactorDen are exact and the integer result is the real number the       *)
(* code's expression denotes.                                              *)
(***************************************************************************)
EXTENDS Integers, Sequences, FiniteSets, TLC

(***************************************************************************)
(* Bounds of the model.                                                    *)
(***************************************************************************)
MaxTrailFrames == 3      \* largest trailMaxFrames handed to updateTrailParameters
MaxInterval == 3         \* largest trailInterval handed to updateTrailParameters
MaxCallbacks == 3        \* gotPoses callbacks of one behaviour
MaxPoses == 2            \* poses of a detector report
FactorDen == 4           \* smoothing factors are 0/FactorDen .. FactorDen/FactorDen

(***************************************************************************)
(* Program constants.                                                      *)
(***************************************************************************)
ConfThreshold == 10      \* "confidence > 0.1", in hundredths
NumKeypoints == 17       \* keypoints of a detected pose
DefaultTrailMaxFrames == 60
DefaultTrailInterval == 3

RECURSIVE Pow(_, _)
Pow(b, e) == IF e = 0 THEN 1 ELSE b * Pow(b, e - 1)

Unit == Pow(FactorDen, MaxCallbacks)

RECURSIVE SqrtSearch(_, _, _)
SqrtSearch(n, lo, hi) ==
  IF lo >= hi THEN lo
  ELSE LET mid == (lo + hi + 1) \div 2
       IN  IF mid * mid <= n THEN SqrtSearch(n, mid, hi)
           ELSE SqrtSearch(n, lo, mid - 1)

RECURSIVE SqrtUpper(_, _)
SqrtUpper(n, h) == IF h * h >= n THEN h ELSE SqrtUpper(n, 2 * h)

\* Math.sqrt on the model's integers: the exact root of a perfect square (the
\* inputs of the geometry are chosen so that every root taken is exact), and
\* the root truncated to the model's resolution otherwise.
Sqrt(n) == IF n <= 0 THEN 0 ELSE SqrtSearch(n, 0, SqrtUpper(n, 1))

\* Array.prototype.splice(t, 1) on a 1-based sequence.
RemoveAt(s, t) == SubSeq(s, 1, t - 1) \o SubSeq(s, t + 1, Len(s))

(***************************************************************************)
(* The connection table.  Keypoint indices are the source's (0-based);     *)
(* lengthRatio is a fraction num/den (0.75 = 3/4, 1.5 = 3/2).              *)
(***************************************************************************)
Conn(l, u, c, n, d) ==
  [lower |-> l, upper |-> u, centered |-> c, ratioNum |-> n, ratioDen |-> d]

configureSchlemerConnections ==
  << Conn(16, 14, FALSE, 3, 4),
     Conn(14, 12, FALSE, 3, 2),
     Conn(6, 10, FALSE, 3, 2),
     Conn(12, 6, FALSE, 3, 2),
     Conn(15, 13, FALSE, 3, 4),
     Conn(13, 11, FALSE, 3, 2),
     Conn(5, 9, FALSE, 3, 2),
     Conn(11, 5, FALSE, 3, 2),
     Conn(5, 6, TRUE, 3, 4) >>

\* pose.keypoints[i] for the source's 0-based index i.
Kp(pose, i) == pose.keypoints[i + 1]

(***************************************************************************)
(* The stick resolver: the body of the loops of drawSchlemerSticks and of  *)
(* captureTrailSnapshot (the two are the same code).  StickOf is one       *)
(* connection of one pose: the segment, or <<>> when the connection is     *)
(* skipped.                                                                *)
(***************************************************************************)
\* (Segment whose centered case extends the whole length to each side.)
SegmentWholeToEachSide(point1, point2, centered, actualLineLength, dirX, dirY, dirLength) ==
  IF dirLength > 0
  THEN IF centered
       THEN LET centerX == (point1.x + point2.x) \div 2
                centerY == (point1.y + point2.y) \div 2
                halfLength == actualLineLength
            IN  << [startX |-> centerX - (dirX * halfLength) \div dirLength,
                    startY |-> centerY - (dirY * halfLength) \div dirLength,
                    endX |-> centerX + (dirX * halfLength) \div dirLength,
                    endY |-> centerY + (dirY * halfLength) \div dirLength] >>
       ELSE << [startX |-> point1.x,
                startY |-> point1.y,
                endX |-> point1.x + (dirX * actualLineLength) \div dirLength,
                endY |-> point1.y + (dirY * actualLineLength) \div dirLength] >>
  ELSE <<>>

\* The segment of a connection whose two keypoints are confident, from the
\* direction vector (dirX, dirY) and its length dirLength.
Segment(point1, point2, centered, actualLineLength, dirX, dirY, dirLength) ==
  IF dirLength > 0
  THEN IF centered
       THEN LET centerX == (point1.x + point2.x) \div 2
                centerY == (point1.y + point2.y) \div 2
                halfLength == actualLineLength \div 2
            IN  << [startX |-> centerX - (dirX * halfLength) \div dirLength,
                    startY |-> centerY - (dirY * halfLength) \div dirLength,
                    endX |-> centerX + (dirX * halfLength) \div dirLength,
                    endY |-> centerY + (dirY * halfLength) \div dirLength] >>
       ELSE << [startX |-> point1.x,
                startY |-> point1.y,
                endX |-> point1.x + (dirX * actualLineLength) \div dirLength,
                endY |-> point1.y + (dirY * actualLineLength) \div dirLength] >>
  ELSE <<>>

\* (StickOf with the test confidence >= 0.1.)
StickOfAtThreshold(pose, conn, lineLength) ==
  LET point1 == Kp(pose, conn.lower)
      point2 == Kp(pose, conn.upper)
      dirX == point2.x - point1.x
      dirY == point2.y - point1.y
  IN  IF point1.confidence >= ConfThreshold /\ point2.confidence >= ConfThreshold
      THEN Segment(point1, point2, conn.centered,
                   (lineLength * conn.ratioNum) \div conn.ratioDen,
                   dirX, dirY, Sqrt(dirX * dirX + dirY * dirY))
      ELSE <<>>

StickOf(pose, conn, lineLength) ==
  LET point1 == Kp(pose, conn.lower)
      point2 == Kp(pose, conn.upper)
      dirX == point2.x - point1.x
      dirY == point2.y - point1.y
  IN  IF point1.confidence > ConfThreshold /\ point2.confidence > ConfThreshold
      THEN Segment(point1, point2, conn.centered,
                   (lineLength * conn.ratioNum) \div conn.ratioDen,
                   dirX, dirY, Sqrt(dirX * dirX + dirY * dirY))
      ELSE <<>>

\* The loop over the connections of one pose (j is 1-based here), and the loop
\* over the poses.  Each emitted segment is tagged with the iteration that
\* emitted it (pose and conn, the source's 0-based i and j): the tag is not
\* data of the program, it names the line() call.
Emit(out, i, j, s) ==
  IF s = <<>> THEN out ELSE Append(out, [pose |-> i - 1, conn |-> j - 1, stick |-> s[1]])

RECURSIVE ConnLoop(_, _, _, _, _)
ConnLoop(pose, i, j, lineLength, out) ==
  IF j > Len(configureSchlemerConnections) THEN out
  ELSE ConnLoop(pose, i, j + 1, lineLength,
                Emit(out, i, j, StickOf(pose, configureSchlemerConnections[j], lineLength)))

RECURSIVE PoseLoop(_, _, _, _)
PoseLoop(ps, i, lineLength, out) ==
  IF i > Len(ps) THEN out
  ELSE PoseLoop(ps, i + 1, lineLength, ConnLoop(ps[i], i, 1, lineLength, out))

Untag(tagged) == [n \in 1..Len(tagged) |-> tagged[n].stick]

\* drawSchlemerSticks: the line() calls of one call, in order.
\* (Its callers always hand in the global poses array, so "!poses" is false.)
drawSchlemerSticks(lineLength, ps) ==
  IF lineLength = 0 THEN <<>>
  ELSE PoseLoop(ps, 1, lineLength, <<>>)

\* SpringyBlueSchlemerVisualizer.drawSchlemerSticks: the same resolver; each
\* segment is handed to drawSpringyLine as the target of a curve.
springyDrawSchlemerSticks(lineLength, ps) ==
  IF lineLength = 0 THEN <<>>
  ELSE PoseLoop(ps, 1, lineLength, <<>>)

(***************************************************************************)
(* The visualizer object.  kind is its class: "white" (SchlemerVisualizer  *)
(* as WhiteSchlemerVisualizer), "springy" (SpringyBlueSchlemerVisualizer)  *)
(* or "clear" (ClearRedSchlemerVisualizer).  A snapshot of trailHistory is *)
(* {age, sticks}; its third field seen is not data of the program: it      *)
(* counts the render frames of the visualizer since the one that captured  *)
(* the snapshot (up to SeenCap), and is -1 once trailMaxFrames has changed *)
(* since the capture.                                                      *)
(***************************************************************************)
Kinds == {"white", "springy", "clear"}

\* The constructor, for each class.  this.poses is never assigned by it:
\* posesAssigned is false while this.poses is undefined.
SchlemerConstructor(kind) ==
  [kind |-> kind,
   poses |-> <<>>,
   posesAssigned |-> FALSE,
   schlemerLineLength |-> 0,
   trailHistory |-> <<>>,
   trailMaxFrames |-> DefaultTrailMaxFrames,
   trailInterval |-> DefaultTrailInterval,
   trailFrameCounter |-> 0,
   showSchlemerTrail |-> FALSE]

\* The elasticity of a SpringyBlueSchlemerVisualizer, in hundredths.
DefaultElasticity == 100
MinElasticity == 10
MaxElasticity == 3 * 100

Constructor(kind) ==
  IF kind = "springy"
  THEN [elasticity |-> DefaultElasticity] @@ SchlemerConstructor(kind)
  ELSE SchlemerConstructor(kind)

getElasticity(v) == v.elasticity

\* (setElasticity without the floor.)
setElasticityCeilingOnly(v, elasticityValue) ==
  [v EXCEPT !.elasticity = IF elasticityValue > MaxElasticity THEN MaxElasticity
                           ELSE elasticityValue]

\* Math.max(0.1, Math.min(3.0, elasticityValue))
setElasticity(v, elasticityValue) ==
  [v EXCEPT !.elasticity =
     LET least == IF elasticityValue < MaxElasticity THEN elasticityValue
                  ELSE MaxElasticity
     IN  IF least > MinElasticity THEN least ELSE MinElasticity]

\* The showSchlemerTrail property: a plain field, except on the clear class,
\* whose accessor pair reads false and ignores every write.
GetShowTrail(v) == IF v.kind = "clear" THEN FALSE ELSE v.showSchlemerTrail

SetShowTrail(v, value) ==
  IF v.kind = "clear" THEN v ELSE [v EXCEPT !.showSchlemerTrail = value]

\* !this.poses || this.poses.length === 0
NoPoses(v) == ~v.posesAssigned \/ Len(v.poses) = 0

\* The end of captureTrailSnapshot: a snapshot without sticks is not stored.
\* (The push of captureTrailSnapshot without the test for a stick.)
PushSnapshotEvenEmpty(v, sticks) ==
  [v EXCEPT !.trailHistory = Append(@, [age |-> 0, sticks |-> sticks, seen |-> 0])]

PushSnapshot(v, sticks) ==
  IF Len(sticks) > 0
  THEN [v EXCEPT !.trailHistory = Append(@, [age |-> 0, sticks |-> sticks, seen |-> 0])]
  ELSE v

captureTrailSnapshot(v) ==
  IF v.kind = "clear" THEN v
  ELSE IF NoPoses(v) \/ v.schlemerLineLength = 0 THEN v
  ELSE PushSnapshot(v, Untag(PoseLoop(v.poses, 1, v.schlemerLineLength, <<>>)))

\* The aging loop of drawSchlemerTrail: t runs from the last snapshot down to
\* the first, each is aged, then spliced out or drawn.  rendered collects one
\* entry per line() call: the stick and fadeFactor = 1 - age/trailMaxFrames as
\* the fraction fadeNum/fadeDen.
FadeLines(item, maxFrames) ==
  [n \in 1..Len(item.sticks) |->
     [stick |-> item.sticks[n], fadeNum |-> maxFrames - item.age, fadeDen |-> maxFrames]]

\* (TrailLoop with the eviction test age >= trailMaxFrames.)
RECURSIVE TrailLoopEvictsAtMax(_, _, _, _)
TrailLoopEvictsAtMax(history, t, maxFrames, rendered) ==
  IF t < 1 THEN [trailHistory |-> history, rendered |-> rendered]
  ELSE LET aged == [history EXCEPT ![t].age = @ + 1]
       IN  IF aged[t].age >= maxFrames
           THEN TrailLoopEvictsAtMax(RemoveAt(aged, t), t - 1, maxFrames, rendered)
           ELSE TrailLoopEvictsAtMax(aged, t - 1, maxFrames,
                                     rendered \o FadeLines(aged[t], maxFrames))

RECURSIVE TrailLoop(_, _, _, _)
TrailLoop(history, t, maxFrames, rendered) ==
  IF t < 1 THEN [trailHistory |-> history, rendered |-> rendered]
  ELSE LET aged == [history EXCEPT ![t].age = @ + 1]
       IN  IF aged[t].age > maxFrames
           THEN TrailLoop(RemoveAt(aged, t), t - 1, maxFrames, rendered)
           ELSE TrailLoop(aged, t - 1, maxFrames,
                          rendered \o FadeLines(aged[t], maxFrames))

\* (CountFrame with the test trailFrameCounter > trailInterval.)
CountFrameLate(v) ==
  IF v.trailFrameCounter + 1 > v.trailInterval
  THEN captureTrailSnapshot([v EXCEPT !.trailFrameCounter = 0])
  ELSE [v EXCEPT !.trailFrameCounter = @ + 1]

\* The head of drawSchlemerTrail: the frame counter, and the capture when due.
CountFrame(v) ==
  IF v.trailFrameCounter + 1 >= v.trailInterval
  THEN captureTrailSnapshot([v EXCEPT !.trailFrameCounter = 0])
  ELSE [v EXCEPT !.trailFrameCounter = @ + 1]

TrailDrawn(v, looped, due) ==
  [viz |-> [v EXCEPT !.trailHistory = looped.trailHistory],
   trail |-> looped.rendered,
   reached |-> TRUE,
   captureInvoked |-> due]

AgeTrail(v, due) ==
  TrailDrawn(v, TrailLoop(v.trailHistory, Len(v.trailHistory), v.trailMaxFrames, <<>>), due)

NoTrailDrawn(v) ==
  [viz |-> v, trail |-> <<>>, reached |-> FALSE, captureInvoked |-> FALSE]

\* drawSchlemerTrail (SchlemerVisualizer, and the override of the springy
\* class, which differs in opacity and stroke weight only): the object after
\* the call, what was drawn, whether the call got past its first line and
\* whether it invoked captureTrailSnapshot.
drawSchlemerTrail(v) ==
  IF v.kind = "clear" THEN NoTrailDrawn(v)
  ELSE IF v.schlemerLineLength = 0 \/ NoPoses(v) THEN NoTrailDrawn(v)
  ELSE AgeTrail(CountFrame(v), v.trailFrameCounter + 1 >= v.trailInterval)

\* draw(canvasWidth, canvasHeight, poses, ...): the sticks of the poses handed
\* in, then the trail when showSchlemerTrail reads true.  The clear class's
\* override never draws a trail.  Segments are recorded in source coordinates
\* (before scaleX/offsetX).
draw(v, ps) ==
  [sticks |-> IF v.kind = "springy"
              THEN springyDrawSchlemerSticks(v.schlemerLineLength, ps)
              ELSE drawSchlemerSticks(v.schlemerLineLength, ps),
   frame |-> TRUE]
  @@ (IF v.kind # "clear" /\ GetShowTrail(v)
      THEN drawSchlemerTrail(v)
      ELSE NoTrailDrawn(v))

updatePoses(v, ps) == [v EXCEPT !.poses = ps, !.posesAssigned = TRUE]

updateSchlemerLineLength(v, length) == [v EXCEPT !.schlemerLineLength = length]

\* (updateTrailParameters that ClearRedSchlemerVisualizer does not override.)
updateTrailParametersOfAnyKind(v, interval, maxFrames) ==
  [v EXCEPT !.trailInterval = interval, !.trailMaxFrames = maxFrames]

updateTrailParameters(v, interval, maxFrames) ==
  IF v.kind = "clear" THEN v
  ELSE [v EXCEPT !.trailInterval = interval, !.trailMaxFrames = maxFrames]

\* (toggleTrail that keeps the history and the counter when trails go off.)
toggleTrailKeepsHistory(v) == SetShowTrail(v, ~GetShowTrail(v))

\* The body of keyPressed's loops for T, for one visualizer.
toggleTrail(v) ==
  LET toggled == SetShowTrail(v, ~GetShowTrail(v))
  IN  IF ~GetShowTrail(toggled)
      THEN [toggled EXCEPT !.trailHistory = <<>>, !.trailFrameCounter = 0]
      ELSE toggled

(***************************************************************************)
(* The sketch's pose functions.  A pose is [keypoints], a keypoint is      *)
(* [x, y, confidence, name]; previousPoses, maskEnabled and maskPoints,    *)
(* globals in the source, are parameters here.                             *)
(***************************************************************************)
\* (Blend that ignores the factor and takes the midpoint.)
BlendMidpoint(prev, new, num, den) == (prev + new) \div 2

\* prev * (1 - factor) + new * factor, for factor = num/den.
Blend(prev, new, num, den) == (prev * (den - num) + new * num) \div den

\* (smoothKeypoint with the two weights exchanged.)
smoothKeypointSwapped(prevKp, newKp, factor) ==
  [x |-> Blend(newKp.x, prevKp.x, factor, FactorDen),
   y |-> Blend(newKp.y, prevKp.y, factor, FactorDen),
   confidence |-> newKp.confidence,
   name |-> newKp.name]

smoothKeypoint(prevKp, newKp, factor) ==
  [x |-> Blend(prevKp.x, newKp.x, factor, FactorDen),
   y |-> Blend(prevKp.y, newKp.y, factor, FactorDen),
   confidence |-> newKp.confidence,
   name |-> newKp.name]

\* (smoothPose that hands the new pose on.)
smoothPoseTakesNew(prevPose, newPose, factor) == newPose

\* The inner loop of smoothPoses: the smoothed pose has the keypoints only.
smoothPose(prevPose, newPose, factor) ==
  [keypoints |->
     [j \in 1..Len(newPose.keypoints) |->
        smoothKeypoint(prevPose.keypoints[j], newPose.keypoints[j], factor)]]

\* The outer loop of smoothPoses (i is 1-based here): previousPoses[i] is
\* undefined, hence falsy, exactly when i is past the end of previousPoses.
RECURSIVE SmoothLoop(_, _, _, _, _)
SmoothLoop(newPoses, previousPoses, factor, i, smoothedPoses) ==
  IF i > Len(newPoses) THEN smoothedPoses
  ELSE SmoothLoop(newPoses, previousPoses, factor, i + 1,
                  Append(smoothedPoses,
                         IF i <= Len(previousPoses)
                         THEN smoothPose(previousPoses[i], newPoses[i], factor)
                         ELSE newPoses[i]))

\* (smoothPoses that returns only the poses that have a previous counterpart.)
smoothPosesDropsNew(newPoses, previousPoses, factor) ==
  IF Len(previousPoses) = 0 THEN <<>>
  ELSE SmoothLoop(SubSeq(newPoses, 1, Len(previousPoses)), previousPoses, factor, 1, <<>>)

smoothPoses(newPoses, previousPoses, factor) ==
  IF Len(previousPoses) = 0 THEN newPoses
  ELSE SmoothLoop(newPoses, previousPoses, factor, 1, <<>>)

\* (Intersect that counts the upper end of an edge instead of the lower.)
IntersectUpperEnd(point, pi, pj) ==
  /\ (pi.y >= point.y) # (pj.y >= point.y)
  /\ IF pj.y - pi.y > 0
     THEN (point.x - pi.x) * (pj.y - pi.y) < (pj.x - pi.x) * (point.y - pi.y)
     ELSE (point.x - pi.x) * (pj.y - pi.y) > (pj.x - pi.x) * (point.y - pi.y)

\* One edge of isPointInPolygon, from polygon[j] to polygon[i]:
\*   yi > y != yj > y && x < ((xj - xi) * (y - yi)) / (yj - yi) + xi
\* The first conjunct makes yj # yi; the comparison is multiplied through by
\* yj - yi, with its direction reversed when that is negative.
Intersect(point, pi, pj) ==
  /\ (pi.y > point.y) # (pj.y > point.y)
  /\ IF pj.y - pi.y > 0
     THEN (point.x - pi.x) * (pj.y - pi.y) < (pj.x - pi.x) * (point.y - pi.y)
     ELSE (point.x - pi.x) * (pj.y - pi.y) > (pj.x - pi.x) * (point.y - pi.y)

\* for (let i = 0, j = polygon.length - 1; i < polygon.length; j = i++)
RECURSIVE PolygonLoop(_, _, _, _, _)
PolygonLoop(point, polygon, i, j, inside) ==
  IF i > Len(polygon) THEN inside
  ELSE PolygonLoop(point, polygon, i + 1, i,
                   IF Intersect(point, polygon[i], polygon[j]) THEN ~inside ELSE inside)

isPointInPolygon(point, polygon) ==
  PolygonLoop(point, polygon, 1, Len(polygon), FALSE)

\* The keypoint loop of filterPosesByMask.
RECURSIVE CountValid(_, _, _, _)
CountValid(pose, polygon, k, validKeypoints) ==
  IF k > Len(pose.keypoints) THEN validKeypoints
  ELSE CountValid(pose, polygon, k + 1,
                  IF /\ pose.keypoints[k].confidence > ConfThreshold
                     /\ isPointInPolygon(pose.keypoints[k], polygon)
                  THEN validKeypoints + 1 ELSE validKeypoints)

\* (KeepPose with the quarter rounded down.)
KeepPoseFloorQuarter(pose, polygon) ==
  CountValid(pose, polygon, 1, 0) >= Len(pose.keypoints) \div 4

\* validKeypoints >= pose.keypoints.length / 4
KeepPose(pose, polygon) ==
  4 * CountValid(pose, polygon, 1, 0) >= Len(pose.keypoints)

RECURSIVE FilterLoop(_, _, _, _)
FilterLoop(ps, polygon, i, filteredPoses) ==
  IF i > Len(ps) THEN filteredPoses
  ELSE FilterLoop(ps, polygon, i + 1,
                  IF KeepPose(ps[i], polygon) THEN Append(filteredPoses, ps[i])
                  ELSE filteredPoses)

filterPosesByMask(ps, enabled, points) ==
  IF ~enabled \/ Len(points) < 3 THEN ps
  ELSE FilterLoop(ps, points, 1, <<>>)

\* JSON.parse(JSON.stringify(smoothedResults)): new objects with the own
\* properties of the old ones; every number of a pose is finite and every
\* property defined, so none is dropped or turned into null.
CopyKeypoint(kp) ==
  [x |-> kp.x, y |-> kp.y, confidence |-> kp.confidence, name |-> kp.name]

DeepCopy(ps) ==
  [i \in 1..Len(ps) |->
     [keypoints |-> [j \in 1..Len(ps[i].keypoints) |-> CopyKeypoint(ps[i].keypoints[j])]]]

\* The ankle of calculateSchlemerLineLength, for a pose one of whose ankles
\* is confident.
AnklePoint(leftAnkle, rightAnkle) ==
  IF leftAnkle.confidence > ConfThreshold /\ rightAnkle.confidence > ConfThreshold
  THEN [x |-> (leftAnkle.x + rightAnkle.x) \div 2, y |-> (leftAnkle.y + rightAnkle.y) \div 2]
  ELSE IF leftAnkle.confidence > ConfThreshold
       THEN [x |-> leftAnkle.x, y |-> leftAnkle.y]
       ELSE [x |-> rightAnkle.x, y |-> rightAnkle.y]

Distance(dx, dy) == Sqrt(dx * dx + dy * dy)

NoseToAnkle(nose, ankle) == Distance(nose.x - ankle.x, nose.y - ankle.y)

\* The globals and the visualizer after a call that set the length.
Calibrated(length, v) ==
  [schlemerLineLength |-> length, viz |-> updateSchlemerLineLength(v, length)]

\* calculateSchlemerLineLength, for the global poses ps, the global
\* schlemerLineLength length and the visualizer v: both are left alone unless
\* the first pose has a confident nose and a confident ankle.
calculateSchlemerLineLength(ps, length, v) ==
  IF Len(ps) = 0 THEN [schlemerLineLength |-> length, viz |-> v]
  ELSE IF /\ Kp(ps[1], 0).confidence > ConfThreshold
          /\ \/ Kp(ps[1], 15).confidence > ConfThreshold
             \/ Kp(ps[1], 16).confidence > ConfThreshold
       THEN Calibrated(NoseToAnkle(Kp(ps[1], 0), AnklePoint(Kp(ps[1], 15), Kp(ps[1], 16))), v)
       ELSE [schlemerLineLength |-> length, viz |-> v]

\* The detection mask in localStorage: absent, or the saved object.
NoStoredMask == [present |-> FALSE, points |-> <<>>, enabled |-> FALSE]

saveDetectionMask(points, enabled) ==
  [present |-> TRUE, points |-> points, enabled |-> enabled]

\* loadDetectionMask: the globals keep their initial values when nothing is
\* stored.
loadDetectionMask(stored) ==
  IF stored.present THEN [maskPoints |-> stored.points, maskEnabled |-> stored.enabled]
  ELSE [maskPoints |-> <<>>, maskEnabled |-> FALSE]

(***************************************************************************)
(* The spring step of the two springy visualizers.  The source computes in *)
(* floating point; here a coordinate is a whole number (of 1/Fine pixels   *)
(* where the step is studied on its own), hardness, damping and elasticity *)
(* are whole hundredths, and every product is cut to a whole number where  *)
(* the source rounds it.                                                   *)
(***************************************************************************)
Fine == Pow(10, 3)

springHardness == 15
springDamping == 90
midPointHardness == 12
springStrength == 2
damping == 95

Pt(x, y) == [x |-> x, y |-> y]
AtRest(x, y) == [x |-> x, y |-> y, vx |-> 0, vy |-> 0]

\* a * num / den, to the precision kept.
Part(a, num, den) == (a * num) \div den

\* (applySpringForce that advances the position by the velocity before the
\* damping.)
applySpringForceDampsLate(springPoint, target, hardness, dmp) ==
  LET vx == springPoint.vx + Part(target.x - springPoint.x, hardness, 100)
      vy == springPoint.vy + Part(target.y - springPoint.y, hardness, 100)
  IN  [x |-> springPoint.x + vx, y |-> springPoint.y + vy,
       vx |-> Part(vx, dmp, 100), vy |-> Part(vy, dmp, 100)]

\* SpringSplineVisualizer.applySpringForce: force, damping, position.
applySpringForce(springPoint, target, hardness, dmp) ==
  LET forceX == Part(target.x - springPoint.x, hardness, 100)
      forceY == Part(target.y - springPoint.y, hardness, 100)
      vx == Part(springPoint.vx + forceX, dmp, 100)
      vy == Part(springPoint.vy + forceY, dmp, 100)
  IN  [x |-> springPoint.x + vx, y |-> springPoint.y + vy, vx |-> vx, vy |-> vy]

\* The strength and damping drawSpringyLine derives from the elasticity, in
\* ten-thousandths: springStrength * elasticity, damping + (1 - elasticity) * 0.03.
effectiveSpringStrength(elasticity) == springStrength * elasticity
effectiveDamping(elasticity) == damping * 100 + (100 - elasticity) * 3

\* One pass of drawSpringyLine's loop body over a control point.
stepControlPoint(cp, ideal, elasticity) ==
  LET forceX == Part(ideal.x - cp.x, effectiveSpringStrength(elasticity), 100 * 100)
      forceY == Part(ideal.y - cp.y, effectiveSpringStrength(elasticity), 100 * 100)
      vx == Part(cp.vx + forceX, effectiveDamping(elasticity), 100 * 100)
      vy == Part(cp.vy + forceY, effectiveDamping(elasticity), 100 * 100)
  IN  [x |-> cp.x + vx, y |-> cp.y + vy, vx |-> vx, vy |-> vy]

(***************************************************************************)
(* Detector output used as input.  Coordinates are multiples of 8, and the *)
(* connected keypoints of StandingPose are axis-aligned or 3-4-5 apart, so *)
(* that every root and quotient of the stick geometry is exact for a stick *)
(* length of 120 (the nose-to-ankle distance of StandingPose).             *)
(***************************************************************************)
KeypointNames ==
  << "nose", "left_eye", "right_eye", "left_ear", "right_ear",
     "left_shoulder", "right_shoulder", "left_elbow", "right_elbow",
     "left_wrist", "right_wrist", "left_hip", "right_hip",
     "left_knee", "right_knee", "left_ankle", "right_ankle" >>

StandingXY ==
  << <<32, 8>>, <<40, 0>>, <<24, 0>>, <<48, 8>>, <<16, 8>>,
     <<48, 32>>, <<16, 32>>, <<56, 48>>, <<8, 48>>,
     <<72, 64>>, <<40, 64>>, <<48, 64>>, <<16, 64>>,
     <<48, 96>>, <<16, 96>>, <<48, 128>>, <<16, 128>> >>

HighConf == 9 * ConfThreshold
LowConf == ConfThreshold \div 2

\* A pose at StandingXY shifted by (dx, dy) whose first n keypoints (in the
\* detector's order) have confidence HighConf and whose others have LowConf.
PoseOf(dx, dy, n) ==
  [keypoints |->
     [k \in 1..NumKeypoints |->
        [x |-> StandingXY[k][1] + dx, y |-> StandingXY[k][2] + dy,
         confidence |-> IF k <= n THEN HighConf ELSE LowConf,
         name |-> KeypointNames[k]]]]

StandingPose == PoseOf(0, 0, NumKeypoints)
FaintPose == PoseOf(0, 0, 0)
\* The nose-to-ankle distance of StandingPose.
CalibratedLength == 8 * 15

TrailPoseLists == { <<>>, <<StandingPose>>, <<FaintPose>> }

\* Reports of the smoothing specification: poses a whole number of Units
\* apart, and a pair of poses with 4 and with 5 confident keypoints.
PoseReports ==
  { <<>>,
    <<StandingPose>>,
    <<PoseOf(Unit, 0, NumKeypoints)>>,
    <<PoseOf(2 * Unit, Unit, NumKeypoints)>>,
    <<PoseOf(0, 0, 4), PoseOf(0, 0, 5)>>,
    <<PoseOf(2 * Unit, 0, NumKeypoints), StandingPose>> }

\* Masks found in localStorage at setup: a rectangle around StandingPose, its
\* first three corners (a triangle), its first two (no polygon), or nothing.
MaskCorners ==
  << [x |-> -8, y |-> -8], [x |-> 88, y |-> -8],
     [x |-> 88, y |-> 136], [x |-> -8, y |-> 136] >>

StoredMasks ==
  {NoStoredMask} \cup
  {saveDetectionMask(SubSeq(MaskCorners, 1, n), e) : n \in {2, 3, 4}, e \in BOOLEAN}

\* StandingPose with the confidence of the keypoints in faint lowered to
\* LowConf, of those in edge set to exactly the threshold, and with keypoint
\* from (if any) moved onto keypoint onto (the source's 0-based indices).
Variant(faint, edge, from, onto) ==
  [keypoints |->
     [k \in 1..NumKeypoints |->
        [x |-> IF k - 1 = from THEN StandingXY[onto + 1][1] ELSE StandingXY[k][1],
         y |-> IF k - 1 = from THEN StandingXY[onto + 1][2] ELSE StandingXY[k][2],
         confidence |-> IF k - 1 \in faint THEN LowConf
                        ELSE IF k - 1 \in edge THEN ConfThreshold ELSE HighConf,
         name |-> KeypointNames[k]]]]

FaintKnee == Variant({14}, {}, -1, 0)
EdgeShoulder == Variant({}, {5}, -1, 0)
WristOnShoulder == Variant({}, {}, 10, 6)
ShouldersTogether == Variant({}, {}, 6, 5)

\* StandingPose at twice the size.
TallPose ==
  [keypoints |->
     [k \in 1..NumKeypoints |->
        [x |-> 2 * StandingXY[k][1], y |-> 2 * StandingXY[k][2],
         confidence |-> HighConf, name |-> KeypointNames[k]]]]

StickReports ==
  { <<>>,
    <<StandingPose>>,
    <<FaintPose, FaintKnee>>,
    <<EdgeShoulder, WristOnShoulder>>,
    <<ShouldersTogether, StandingPose>>,
    <<TallPose>>,
    <<StandingPose, TallPose>> }

SeenCap == MaxTrailFrames + 2

(***************************************************************************)
(* State.  The program's:                                                  *)
(*   viz                 the visualizer object under study (the sketch     *)
(*                       makes the same calls on each of its visualizers)  *)
(*   poses               the global published pose list                    *)
(*   previousPoses       the smoother's memory                             *)
(*   schlemerLineLength  the global stick length                           *)
(*   smoothingFactor     the numerator of the smoothing factor             *)
(*   maskEnabled, maskPoints, maskEditMode   the detection mask            *)
(*   storedMask          localStorage's "oskar-detection-mask"             *)
(* Not the program's, observing the behaviour:                             *)
(*   drawn     what the handler that ran last drew (nothing, unless it was *)
(*             a render frame); reached tells that drawSchlemerTrail got   *)
(*             past its first line, captureInvoked that it called          *)
(*             captureTrailSnapshot, frame that the handler was a render   *)
(*             frame, cleared how many snapshots a T key press dropped     *)
(*   run       the number, modulo trailInterval, of render frames since    *)
(*             trails were enabled, while each of them found a pose list   *)
(*             and a stick length and trailInterval has not changed; -1    *)
(*             otherwise                                                   *)
(*   results   the detector's last report (the argument of gotPoses)       *)
(*   callbacks the number of gotPoses callbacks observed                   *)
(*   track     for each index i of the smoothed list, see NoTrack          *)
(*   probe     the last call of isPointInPolygon made on its own: the      *)
(*             point, the polygon and the result                           *)
(*   sketch    the sketch's other globals: the visualizers the two         *)
(*             canvases show (each list holds one visualizer of each kind, *)
(*             so a visualizer is named by its kind), the point of the     *)
(*             mask the mouse holds, the Shift key, whether the mask       *)
(*             editor has drawn, and p5's mouseIsPressed                   *)
(***************************************************************************)
VARIABLES viz, poses, previousPoses, schlemerLineLength, smoothingFactor,
          maskEnabled, maskPoints, maskEditMode, storedMask,
          drawn, run, results, callbacks, track, probe, springs, sensors, sketch

vars == <<viz, poses, previousPoses, schlemerLineLength, smoothingFactor,
          maskEnabled, maskPoints, maskEditMode, storedMask,
          drawn, run, results, callbacks, track, probe, springs, sensors, sketch>>

poseVars == <<poses, previousPoses, schlemerLineLength>>
maskVars == <<maskEnabled, maskPoints, maskEditMode, storedMask>>
observed == <<results, callbacks, track>>
apartVars == <<probe, springs, sensors, sketch>>

\* No spring made yet; no sensor stream.
NoSprings == <<>>
NoSensors == <<>>

\* The visualizer lists setup makes, and the globals it leaves.
visualizers1 == <<"clear", "white", "springy">>
visualizers2 == <<"clear", "white", "springy">>

SketchGlobals ==
  [viz1Index |-> 0, viz2Index |-> 1,
   viz1 |-> visualizers1[0 + 1], viz2 |-> visualizers2[1 + 1],
   selectedMaskPoint |-> -1, isShiftDown |-> FALSE,
   maskEditorMetrics |-> FALSE, mouseIsPressed |-> FALSE]

NoProbe == [asked |-> FALSE, point |-> [x |-> 0, y |-> 0], polygon |-> <<>>, inside |-> FALSE]

NothingDrawn ==
  [sticks |-> <<>>, trail |-> <<>>, reached |-> FALSE, captureInvoked |-> FALSE,
   frame |-> FALSE, cleared |-> 0]

\* The observers of a render frame: every stored snapshot has seen one more.
SeeFrame(v) ==
  [v EXCEPT !.trailHistory =
     [n \in 1..Len(@) |->
        [@[n] EXCEPT !.seen = IF @ < 0 THEN @ ELSE IF @ < SeenCap THEN @ + 1 ELSE @]]]

ForgetSeen(v) ==
  [v EXCEPT !.trailHistory = [n \in 1..Len(@) |-> [@[n] EXCEPT !.seen = -1]]]

(***************************************************************************)
(* The observer of the smoothed list.  Each of the fields that hold a pose *)
(* is <<>> (none) or <<pose>>.  For the index i of track[i]:               *)
(*   kept     the last callback published its smoothed pose i              *)
(*   origin   the smoothed pose i first published                          *)
(*   first    the pose reported at i by the first callback since           *)
(*            previousPoses last had no pose i                             *)
(*   n        the number of callbacks, up to the last one, that reported   *)
(*            the positions of results[i] at i in a row                    *)
(*   start    previousPoses[i] before the first of these n callbacks       *)
(***************************************************************************)
NoTrack ==
  [kept |-> FALSE, origin |-> <<>>, first |-> <<>>, n |-> 0, start |-> <<>>]

SamePositions(p, q) ==
  \A j \in 1..Len(p.keypoints) :
    p.keypoints[j].x = q.keypoints[j].x /\ p.keypoints[j].y = q.keypoints[j].y

\* The report r goes on with the position it had at index i in the report old.
GoesOn(t, i, r, old) == t.n >= 1 /\ i <= Len(old) /\ SamePositions(r[i], old[i])

Published(enabled, points, pose) == ~enabled \/ Len(points) < 3 \/ KeepPose(pose, points)

\* track[i] after a callback with report r, when the report before was old,
\* previousPoses was prev and the callback smoothed r to smoothed.
TrackOf(t, i, r, old, prev, smoothed, pub) ==
  IF i > Len(r)
  THEN [t EXCEPT !.kept = FALSE, !.first = <<>>, !.n = 0, !.start = <<>>]
  ELSE [kept |-> pub,
        origin |-> IF pub /\ t.origin = <<>> THEN <<smoothed[i]>> ELSE t.origin,
        first |-> IF i <= Len(prev) THEN t.first ELSE <<r[i]>>,
        n |-> IF GoesOn(t, i, r, old) THEN t.n + 1 ELSE 1,
        start |-> IF GoesOn(t, i, r, old) THEN t.start
                  ELSE IF i <= Len(prev) THEN <<prev[i]>> ELSE <<>>]

(***************************************************************************)
(* The handlers.                                                           *)
(***************************************************************************)
\* gotPoses(r): smoothing, filtering, publication to the visualizer, the copy
\* kept for the next callback, and the calibration of a stick length still 0.
\* (gotPoses that calibrates on every callback with a pose.)
GotPosesRecalibrates(r) ==
  \E smoothedResults \in {smoothPoses(r, previousPoses, smoothingFactor)} :
    \E filteredResults \in {filterPosesByMask(smoothedResults, maskEnabled, maskPoints)} :
      \E after \in {IF Len(filteredResults) > 0
                    THEN calculateSchlemerLineLength(filteredResults, schlemerLineLength,
                                                     updatePoses(viz, filteredResults))
                    ELSE [schlemerLineLength |-> schlemerLineLength,
                          viz |-> updatePoses(viz, filteredResults)]} :
        /\ poses' = filteredResults
        /\ previousPoses' = DeepCopy(smoothedResults)
        /\ schlemerLineLength' = after.schlemerLineLength
        /\ viz' = after.viz
        /\ drawn' = NothingDrawn
        /\ UNCHANGED <<smoothingFactor, maskVars, apartVars>>

\* (gotPoses that keeps the published poses for the next smoothing step.)
GotPosesKeepsPublished(r) ==
  \E smoothedResults \in {smoothPoses(r, previousPoses, smoothingFactor)} :
    \E filteredResults \in {filterPosesByMask(smoothedResults, maskEnabled, maskPoints)} :
      \E after \in {IF schlemerLineLength = 0 /\ Len(filteredResults) > 0
                    THEN calculateSchlemerLineLength(filteredResults, schlemerLineLength,
                                                     updatePoses(viz, filteredResults))
                    ELSE [schlemerLineLength |-> schlemerLineLength,
                          viz |-> updatePoses(viz, filteredResults)]} :
        /\ poses' = filteredResults
        /\ previousPoses' = DeepCopy(filteredResults)
        /\ schlemerLineLength' = after.schlemerLineLength
        /\ viz' = after.viz
        /\ drawn' = NothingDrawn
        /\ UNCHANGED <<smoothingFactor, maskVars, apartVars>>

GotPoses(r) ==
  \E smoothedResults \in {smoothPoses(r, previousPoses, smoothingFactor)} :
    \E filteredResults \in {filterPosesByMask(smoothedResults, maskEnabled, maskPoints)} :
      \E after \in {IF schlemerLineLength = 0 /\ Len(filteredResults) > 0
                    THEN calculateSchlemerLineLength(filteredResults, schlemerLineLength,
                                                     updatePoses(viz, filteredResults))
                    ELSE [schlemerLineLength |-> schlemerLineLength,
                          viz |-> updatePoses(viz, filteredResults)]} :
        /\ poses' = filteredResults
        /\ previousPoses' = DeepCopy(smoothedResults)
        /\ schlemerLineLength' = after.schlemerLineLength
        /\ viz' = after.viz
        /\ drawn' = NothingDrawn
        /\ UNCHANGED <<smoothingFactor, maskVars, apartVars>>

\* keyPressed, K: the global length is reset, then calibrated again if the
\* first published pose allows it; the visualizer hears of a success only.
KeyK ==
  \E after \in {calculateSchlemerLineLength(poses, 0, viz)} :
    /\ schlemerLineLength' = after.schlemerLineLength
    /\ viz' = after.viz
    /\ drawn' = NothingDrawn
    /\ UNCHANGED <<poses, previousPoses, smoothingFactor, maskVars, run, observed, apartVars>>

\* keyPressed, E.
KeyE ==
  /\ maskEnabled' = ~maskEnabled
  /\ storedMask' = saveDetectionMask(maskPoints, maskEnabled')
  /\ drawn' = NothingDrawn
  /\ UNCHANGED <<viz, poseVars, smoothingFactor, maskPoints, maskEditMode, run, observed,
               apartVars>>

\* keyPressed, X.
KeyX ==
  /\ maskPoints' = <<>>
  /\ maskEnabled' = FALSE
  /\ storedMask' = saveDetectionMask(maskPoints', maskEnabled')
  /\ drawn' = NothingDrawn
  /\ UNCHANGED <<viz, poseVars, smoothingFactor, maskEditMode, run, observed, apartVars>>

\* The sketch's updateTrailParameters, for this visualizer.
\* keyPressed, R: calculateSchlemerLineLength without the reset to 0.
KeyR ==
  \E after \in {calculateSchlemerLineLength(poses, schlemerLineLength, viz)} :
    /\ schlemerLineLength' = after.schlemerLineLength
    /\ viz' = after.viz
    /\ drawn' = NothingDrawn
    /\ UNCHANGED <<poses, previousPoses, smoothingFactor, maskVars, run, observed, apartVars>>

SetTrailParameters ==
  \E interval \in 1..MaxInterval, maxFrames \in 1..MaxTrailFrames :
    LET v == updateTrailParameters(viz, interval, maxFrames)
    IN  /\ viz' = IF v.trailMaxFrames # viz.trailMaxFrames THEN ForgetSeen(v) ELSE v
        /\ run' = IF v.trailInterval # viz.trailInterval THEN -1 ELSE run
        /\ drawn' = NothingDrawn
        /\ UNCHANGED <<poseVars, smoothingFactor, maskVars, observed, apartVars>>

\* keyPressed, T.
KeyT ==
  /\ viz' = toggleTrail(viz)
  /\ run' = IF GetShowTrail(viz') THEN 0 ELSE -1
  /\ drawn' = [NothingDrawn EXCEPT !.cleared = Len(viz.trailHistory) - Len(viz'.trailHistory)]
  /\ UNCHANGED <<poseVars, smoothingFactor, maskVars, observed, apartVars>>

\* One render frame outside the mask editor, with the visualizer shown on a
\* visible canvas: the sketch's draw calls viz.draw with the global poses.
DrawFrame ==
  /\ ~maskEditMode
  /\ \E r \in {draw(SeeFrame(viz), poses)} :
       /\ viz' = r.viz
       /\ drawn' = [sticks |-> r.sticks, trail |-> r.trail, reached |-> r.reached,
                    captureInvoked |-> r.captureInvoked, frame |-> TRUE, cleared |-> 0]
       /\ run' = IF ~GetShowTrail(viz) \/ run < 0 \/ ~r.reached THEN -1
                 ELSE (run + 1) % viz.trailInterval
  /\ UNCHANGED <<poseVars, smoothingFactor, maskVars, observed, apartVars>>

\* The state setup leaves, around a visualizer v, for a smoothing factor and
\* a mask in localStorage.
SketchAfterSetup(v, factor, stored) ==
  /\ viz = v
  /\ poses = <<>>
  /\ previousPoses = <<>>
  /\ schlemerLineLength = 0
  /\ smoothingFactor = factor
  /\ maskPoints = loadDetectionMask(stored).maskPoints
  /\ maskEnabled = loadDetectionMask(stored).maskEnabled
  /\ maskEditMode = FALSE
  /\ storedMask = stored
  /\ drawn = NothingDrawn
  /\ run = -1
  /\ results = <<>>
  /\ callbacks = 0
  /\ track = [i \in 1..MaxPoses |-> NoTrack]
  /\ probe = NoProbe
  /\ sketch = SketchGlobals

AfterSetup(v, factor, stored) ==
  /\ SketchAfterSetup(v, factor, stored)
  /\ springs = NoSprings
  /\ sensors = NoSensors

\* smoothingFactor = 0.5 (the nearest numerator when FactorDen is odd).
DefaultFactor == FactorDen \div 2

(***************************************************************************)
(* SpecTrail: the trail buffer of one visualizer.  The sketch's draw runs  *)
(* updateTrailParameters before every viz.draw, so the first render frame  *)
(* already finds trail parameters set by it.                               *)
(***************************************************************************)
InitTrail ==
  \E kind \in Kinds, interval \in 1..MaxInterval, maxFrames \in 1..MaxTrailFrames :
    AfterSetup(updateTrailParameters(Constructor(kind), interval, maxFrames),
               DefaultFactor, NoStoredMask)

DetectTrail ==
  \E r \in TrailPoseLists : GotPoses(r) /\ UNCHANGED <<run, observed>>

NextTrail == DetectTrail \/ KeyK \/ SetTrailParameters \/ KeyT \/ DrawFrame

SpecTrail == InitTrail /\ [][NextTrail]_vars

(***************************************************************************)
(* SpecPoses: the smoother and the mask filter, over at most MaxCallbacks  *)
(* callbacks, for every smoothing factor and stored mask.                  *)
(***************************************************************************)
InitPoses ==
  \E factor \in 0..FactorDen, stored \in StoredMasks :
    AfterSetup(Constructor("white"), factor, stored)

Detect ==
  /\ callbacks < MaxCallbacks
  /\ \E r \in PoseReports :
       /\ GotPoses(r)
       /\ results' = r
       /\ callbacks' = callbacks + 1
       /\ track' = [i \in 1..MaxPoses |->
                      TrackOf(track[i], i, r, results, previousPoses, previousPoses',
                              i <= Len(previousPoses')
                                /\ Published(maskEnabled, maskPoints, previousPoses'[i]))]
       /\ UNCHANGED run

NextPoses == Detect \/ KeyE \/ KeyX

SpecPoses == InitPoses /\ [][NextPoses]_vars

(***************************************************************************)
(* SpecStick: the stick resolver of one visualizer, drawing and capturing  *)
(* every frame, with the smoother frozen (factor 0) or transparent         *)
(* (factor 1).                                                             *)
(***************************************************************************)
InitStick ==
  \E kind \in Kinds, factor \in {0, FactorDen} :
    AfterSetup(updateTrailParameters(Constructor(kind), 1, 1), factor, NoStoredMask)

DetectStick ==
  \E r \in StickReports : GotPoses(r) /\ UNCHANGED <<run, observed>>

NextStick == DetectStick \/ KeyK \/ KeyT \/ DrawFrame

SpecStick == InitStick /\ [][NextStick]_vars

(***************************************************************************)
(* SpecPolygon: isPointInPolygon on its own, for the polygons below as the *)
(* stored mask and the points of a grid through their corners.             *)
(***************************************************************************)
Square == << Pt(0, 0), Pt(10, 0), Pt(10, 10), Pt(0, 10) >>

ProbePolygons ==
  { Square,
    << Pt(0, 10), Pt(10, 10), Pt(10, 0), Pt(0, 0) >>,
    << Pt(0, 10), Pt(10, 10), Pt(5, 0) >>,
    << Pt(0, 0), Pt(10, 0), Pt(5, 10) >>,
    << Pt(5, 0), Pt(10, 5), Pt(5, 10), Pt(0, 5) >>,
    << Pt(0, 0), Pt(10, 10), Pt(10, 0), Pt(0, 10) >>,
    << Pt(0, 0), Pt(10, 0), Pt(10, 10), Pt(5, 5), Pt(0, 10) >> }

ProbePoints == {Pt(5 * a, 5 * b) : a \in -1..3, b \in -1..3}

InitPolygon ==
  \E polygon \in ProbePolygons :
    AfterSetup(Constructor("white"), DefaultFactor, saveDetectionMask(polygon, TRUE))

Ask ==
  /\ \E point \in ProbePoints :
       probe' = [asked |-> TRUE, point |-> point, polygon |-> maskPoints,
                 inside |-> isPointInPolygon(point, maskPoints)]
  /\ UNCHANGED <<viz, poseVars, smoothingFactor, maskVars, drawn, run, observed,
                 springs, sensors, sketch>>

NextPolygon == Ask

SpecPolygon == InitPolygon /\ [][NextPolygon]_vars

(***************************************************************************)
(* The motion sensors of the sketch.  A reading is three whole numbers, or *)
(* not a number; a SensorStream keeps of its calibration data the count    *)
(* and the sums, which is all finishCalibration uses; lastUpdate is kept   *)
(* as whether the last update is less than five seconds old.               *)
(***************************************************************************)
CalibrationSamples == 30
Deadzone == 250
NoTrailInterval == 999
NoTrailCount == 5

SensorStream(id) ==
  [id |-> id, fresh |-> TRUE, motion |-> 0, x |-> 0, y |-> 0, z |-> 0,
   calibrating |-> TRUE,
   calibrationData |-> [length |-> 0, sumX |-> 0, sumY |-> 0, sumZ |-> 0],
   baseX |-> 0, baseY |-> 0, baseZ |-> 0]

\* (finishCalibration that takes the last sample as the baseline.)
finishCalibrationAtLastSample(s) ==
  [s EXCEPT !.baseX = s.x, !.baseY = s.y, !.baseZ = s.z, !.calibrating = FALSE]

finishCalibration(s) ==
  [s EXCEPT !.baseX = s.calibrationData.sumX \div s.calibrationData.length,
            !.baseY = s.calibrationData.sumY \div s.calibrationData.length,
            !.baseZ = s.calibrationData.sumZ \div s.calibrationData.length,
            !.calibrating = FALSE]

\* The motion level of a squared distance from the base.
MotionLevel(d2) ==
  IF d2 < Deadzone * Deadzone THEN 0
  ELSE IF d2 < 500 * 500 THEN 1
  ELSE IF d2 < 1000 * 1000 THEN 2
  ELSE IF d2 < 2000 * 2000 THEN 3
  ELSE IF d2 < 3500 * 3500 THEN 4
  ELSE 5

\* SensorStream.update
SensorUpdate(s, r) ==
  IF r.nan THEN s
  ELSE LET read == [s EXCEPT !.x = r.x, !.y = r.y, !.z = r.z, !.fresh = TRUE]
           pushed == [read EXCEPT !.calibrationData =
                        [length |-> @.length + 1, sumX |-> @.sumX + r.x,
                         sumY |-> @.sumY + r.y, sumZ |-> @.sumZ + r.z]]
       IN  IF s.calibrating
           THEN IF pushed.calibrationData.length >= CalibrationSamples
                THEN finishCalibration(pushed)
                ELSE pushed
           ELSE [read EXCEPT !.motion =
                   MotionLevel((r.x - s.baseX) * (r.x - s.baseX)
                               + (r.y - s.baseY) * (r.y - s.baseY)
                               + (r.z - s.baseZ) * (r.z - s.baseZ))]

isActive(s) == s.fresh

\* sensorData with a stream for id, made if there is none.
Registered(sensorData, id) ==
  IF id \in DOMAIN sensorData THEN sensorData
  ELSE [i \in DOMAIN sensorData \cup {id} |->
          IF i = id THEN SensorStream(id) ELSE sensorData[i]]

\* parseSensorMessage: a registration "S<id>" or data "m<id> x= y= z=".
parseSensorMessage(sensorData, msg) ==
  IF msg.type = "S" THEN Registered(sensorData, msg.id)
  ELSE [Registered(sensorData, msg.id) EXCEPT ![msg.id] = SensorUpdate(@, msg)]

RECURSIVE ReadLoop(_, _, _)
ReadLoop(sensorData, msgs, i) ==
  IF i > Len(msgs) THEN sensorData
  ELSE ReadLoop(parseSensorMessage(sensorData, msgs[i]), msgs, i + 1)

\* readSensorData, for the messages the port holds (at most 20 are read).
readSensorData(sn, msgs) ==
  IF ~sn.opened THEN sn
  ELSE [sn EXCEPT !.sensorData = ReadLoop(@, msgs, 1)]

\* enableSensorSimulation
enableSensorSimulation(sn) ==
  [sn EXCEPT !.simulationMode = TRUE,
             !.sensorData = [i \in DOMAIN @ \cup {1} |->
                               IF i = 1 THEN [SensorStream(1) EXCEPT !.calibrating = FALSE]
                               ELSE @[i]]]

\* updateSimulation, for the reading the mouse and the clock give.
updateSimulation(sn, r) ==
  IF ~sn.simulationMode THEN sn
  ELSE [sn EXCEPT !.sensorData[1] = SensorUpdate(@, r)]

\* p5's map(value, start1, stop1, start2, stop2), cut to a whole number.
map(value, start1, stop1, start2, stop2) ==
  start2 + ((stop2 - start2) * (value - start1)) \div (stop1 - start1)

\* The loop of updateTrailParameters that finds the most dynamic sensor.
RECURSIVE MotionLoop(_, _, _)
\* (The loop without the test of isActive.)
MotionLoopOfAnyAge(sensorData, ids, best) ==
  IF ids = {} THEN best
  ELSE LET id == CHOOSE i \in ids : \A k \in ids : i <= k
           sensor == sensorData[id]
       IN  MotionLoop(sensorData, ids \ {id},
                      IF ~sensor.calibrating /\ sensor.motion > best.maxMotion
                      THEN [maxMotion |-> sensor.motion, found |-> TRUE, sensor |-> sensor]
                      ELSE best)

MotionLoop(sensorData, ids, best) ==
  IF ids = {} THEN best
  ELSE LET id == CHOOSE i \in ids : \A k \in ids : i <= k
           sensor == sensorData[id]
       IN  MotionLoop(sensorData, ids \ {id},
                      IF isActive(sensor) /\ ~sensor.calibrating
                         /\ sensor.motion > best.maxMotion
                      THEN [maxMotion |-> sensor.motion, found |-> TRUE, sensor |-> sensor]
                      ELSE best)

Magnitude(a) == IF a < 0 THEN -a ELSE a

\* The global mostDynamicSensor: null, or the stream the loop chose.
NoSensor == [found |-> FALSE, id |-> 0]

\* updateTrailParameters of the sketch, for the visualizer followed.
SketchUpdateTrailParameters(sn, v) ==
  LET best == MotionLoop(sn.sensorData, DOMAIN sn.sensorData,
                         [maxMotion |-> 0, found |-> FALSE, sensor |-> SensorStream(0)])
      mostDynamicSensor == best.sensor
      xMotion == Magnitude(mostDynamicSensor.x - mostDynamicSensor.baseX)
      yMotion == Magnitude(mostDynamicSensor.y - mostDynamicSensor.baseY)
      zMotion == Magnitude(mostDynamicSensor.z - mostDynamicSensor.baseZ)
      combinedMotion == Sqrt(xMotion * xMotion + yMotion * yMotion)
      sensorTrailInterval ==
        IF combinedMotion < 100 THEN NoTrailInterval
        ELSE LET mapped == map(combinedMotion, 100, 3000, 8, 1)
             IN  IF mapped > 1 THEN mapped ELSE 1
      sensorTrailCount ==
        IF combinedMotion < 100 THEN NoTrailCount
        ELSE map(combinedMotion, 100, 3000, 20, 300)
      zInfluence == map(zMotion, 0, 2000, 20, 250)
  IN  IF best.found /\ best.maxMotion > 0
      THEN [sensorTrailInterval |-> sensorTrailInterval,
            sensorTrailCount |-> sensorTrailCount,
            viz |-> IF v.kind = "springy"
                    THEN setElasticity(updateTrailParameters(v, sensorTrailInterval,
                                                             sensorTrailCount),
                                       zInfluence)
                    ELSE updateTrailParameters(v, sensorTrailInterval, sensorTrailCount),
            moving |-> combinedMotion >= 100,
            asked |-> v.kind = "springy", zInfluence |-> zInfluence,
            mostDynamicSensor |-> [found |-> TRUE, id |-> best.sensor.id]]
      ELSE [sensorTrailInterval |-> NoTrailInterval,
            sensorTrailCount |-> NoTrailCount,
            viz |-> updateTrailParameters(v, NoTrailInterval, NoTrailCount),
            moving |-> FALSE,
            asked |-> FALSE, zInfluence |-> 0,
            mostDynamicSensor |-> IF best.found
                                  THEN [found |-> TRUE, id |-> best.sensor.id]
                                  ELSE NoSensor]

(***************************************************************************)
(* SpringSplineVisualizer: a visualizer of its own, with its own detector  *)
(* callback, calibration and springs (three mass points per connection).   *)
(***************************************************************************)
SplineConstructor ==
  [poses |-> <<>>,
   schlemerConnections |-> <<>>,
   schlemerLineLength |-> 0,
   previousPoses |-> <<>>,
   springs |-> <<>>,
   showSplines |-> TRUE,
   maskPoints |-> <<>>,
   maskEnabled |-> FALSE,
   smoothingFactor |-> DefaultFactor]

Midway(a, b) == Pt((a.x + b.x) \div 2, (a.y + b.y) \div 2)

\* The spring initializeSprings pushes for initial start and end positions.
NewSpring(connection, start, end) ==
  [connection |-> connection,
   startPoint |-> AtRest(start.x, start.y),
   endPoint |-> AtRest(end.x, end.y),
   midPoint |-> AtRest(Midway(start, end).x, Midway(start, end).y),
   targetStart |-> start,
   targetEnd |-> end,
   targetMid |-> Midway(start, end),
   controlStart |-> Pt(0, 0),
   controlEnd |-> Pt(0, 0)]

\* The target segment of a connection whose keypoints are confident and
\* apart, as initializeSprings and updateSprings compute it.
TargetOf(point1, point2, connection, lineLength) ==
  Segment(point1, point2, connection.centered,
          (lineLength * connection.ratioNum) \div connection.ratioDen,
          point2.x - point1.x, point2.y - point1.y,
          Distance(point2.x - point1.x, point2.y - point1.y))[1]

\* initializeSprings, one connection: the initial positions stay 0 where the
\* source does not assign them.
InitialSpring(pose, connection, lineLength) ==
  LET point1 == Kp(pose, connection.lower)
      point2 == Kp(pose, connection.upper)
      apart == Distance(point2.x - point1.x, point2.y - point1.y) > 0
      t == TargetOf(point1, point2, connection, lineLength)
  IN  IF point1.confidence > ConfThreshold /\ point2.confidence > ConfThreshold
      THEN IF connection.centered
           THEN IF apart /\ lineLength > 0
                THEN NewSpring(connection, Pt(t.startX, t.startY), Pt(t.endX, t.endY))
                ELSE NewSpring(connection, Pt(0, 0), Pt(0, 0))
           ELSE IF lineLength > 0 /\ apart
                THEN NewSpring(connection, Pt(point1.x, point1.y), Pt(t.endX, t.endY))
                ELSE NewSpring(connection, Pt(point1.x, point1.y), Pt(0, 0))
      ELSE NewSpring(connection, Pt(0, 0), Pt(0, 0))

SplineInitializeSprings(o) ==
  IF Len(o.poses) = 0 \/ Len(o.schlemerConnections) = 0 THEN o
  ELSE [o EXCEPT !.springs =
          [j \in 1..Len(o.schlemerConnections) |->
             InitialSpring(o.poses[1], o.schlemerConnections[j], o.schlemerLineLength)]]

\* The targets of a spring after updateSprings has looked at the pose.
Retarget(spring, point1, point2, lineLength) ==
  IF Distance(point2.x - point1.x, point2.y - point1.y) > 0
  THEN LET t == TargetOf(point1, point2, spring.connection, lineLength)
       IN  [spring EXCEPT !.targetStart = Pt(t.startX, t.startY),
                          !.targetEnd = Pt(t.endX, t.endY),
                          !.targetMid = Midway(Pt(t.startX, t.startY), Pt(t.endX, t.endY))]
  ELSE [spring EXCEPT !.targetMid = Midway(spring.targetStart, spring.targetEnd)]

\* The three spring steps and the control points that follow from them.
Pulled(spring, hardness, midHardness, dmp) ==
  LET startPoint == applySpringForce(spring.startPoint, spring.targetStart, hardness, dmp)
      endPoint == applySpringForce(spring.endPoint, spring.targetEnd, hardness, dmp)
      midPoint == applySpringForce(spring.midPoint, spring.targetMid, midHardness, dmp)
  IN  [spring EXCEPT !.startPoint = startPoint,
                     !.endPoint = endPoint,
                     !.midPoint = midPoint,
                     !.controlStart = Midway(startPoint, midPoint),
                     !.controlEnd = Midway(endPoint, midPoint)]

\* updateSprings, one spring.
updateSpring(spring, pose, lineLength) ==
  IF /\ Kp(pose, spring.connection.lower).confidence > ConfThreshold
     /\ Kp(pose, spring.connection.upper).confidence > ConfThreshold
  THEN Pulled(Retarget(spring, Kp(pose, spring.connection.lower),
                       Kp(pose, spring.connection.upper), lineLength),
              springHardness, midPointHardness, springDamping)
  ELSE spring

updateSprings(o) ==
  IF Len(o.poses) = 0 \/ Len(o.springs) = 0 THEN o
  ELSE [o EXCEPT !.springs =
          [j \in 1..Len(o.springs) |->
             updateSpring(o.springs[j], o.poses[1], o.schlemerLineLength)]]

\* drawSplines: the two bezier halves drawn for every spring, by their points.
drawSplines(o) ==
  [j \in 1..Len(o.springs) |->
     [start |-> Pt(o.springs[j].startPoint.x, o.springs[j].startPoint.y),
      controlStart |-> o.springs[j].controlStart,
      mid |-> Pt(o.springs[j].midPoint.x, o.springs[j].midPoint.y),
      controlEnd |-> o.springs[j].controlEnd,
      end |-> Pt(o.springs[j].endPoint.x, o.springs[j].endPoint.y)]]

\* SpringSplineVisualizer.draw, as far as the springs go.
SplineDraw(o) ==
  IF o.showSplines /\ Len(o.springs) > 0
  THEN [o |-> updateSprings(o), curves |-> drawSplines(updateSprings(o))]
  ELSE [o |-> o, curves |-> <<>>]

SplineCalculateSchlemerLineLength(o) ==
  IF Len(o.poses) = 0 THEN o
  ELSE IF /\ Kp(o.poses[1], 0).confidence > ConfThreshold
          /\ \/ Kp(o.poses[1], 15).confidence > ConfThreshold
             \/ Kp(o.poses[1], 16).confidence > ConfThreshold
       THEN [o EXCEPT !.schlemerLineLength =
               NoseToAnkle(Kp(o.poses[1], 0),
                           AnklePoint(Kp(o.poses[1], 15), Kp(o.poses[1], 16)))]
       ELSE o

SplineConfigureSchlemerConnections(o) ==
  SplineInitializeSprings([o EXCEPT !.schlemerConnections = configureSchlemerConnections])

SplineGotPoses(o, r) ==
  LET smoothedResults == smoothPoses(r, o.previousPoses, o.smoothingFactor)
      filteredResults == filterPosesByMask(smoothedResults, o.maskEnabled, o.maskPoints)
      stored == [o EXCEPT !.poses = filteredResults,
                          !.previousPoses = DeepCopy(smoothedResults)]
  IN  IF stored.schlemerLineLength = 0 /\ Len(stored.poses) > 0
      THEN SplineConfigureSchlemerConnections(SplineCalculateSchlemerLineLength(stored))
      ELSE stored

(***************************************************************************)
(* SpecStep: the spring step on its own.  One mass point starts at rest;   *)
(* for the first MaxMoves steps the target, the stepping visualizer and    *)
(* its hardness or elasticity are free, afterwards the point is stepped by *)
(* applySpringForce towards the target it has, RestSteps steps in all.     *)
(***************************************************************************)
MaxMoves == 2
RestSteps == 6 * 10

StartPoints == {AtRest(0, 0), AtRest(100 * Fine, (-37) * Fine)}
StepTargets == {Pt(100 * Fine, 0), Pt(20 * Fine, 50 * Fine)}
Elasticities == {10, 3 * 100}

\* springs under SpecStep: the point, its state before the last step, that
\* step's target and coefficients, the starting point, and whether every step
\* so far was applySpringForce towards the first target with springHardness.
NewPoint(point, target) ==
  [point |-> point, before |-> point, target |-> target, by |-> "none",
   hardness |-> 0, elasticity |-> 0, n |-> 0, origin |-> point, first |-> target,
   still |-> TRUE]

InitStep ==
  /\ SketchAfterSetup(Constructor("springy"), DefaultFactor, NoStoredMask)
  /\ \E point \in StartPoints, target \in StepTargets :
       springs = NewPoint(point, target)
  /\ sensors = NoSensors

StepSpline ==
  /\ springs.n < RestSteps
  /\ \E target \in (IF springs.n < MaxMoves THEN StepTargets ELSE {springs.target}),
        hardness \in (IF springs.n < MaxMoves THEN {springHardness, midPointHardness}
                      ELSE {IF springs.by = "spline" THEN springs.hardness
                            ELSE springHardness}) :
       springs' = [springs EXCEPT
                     !.point = applySpringForce(springs.point, target, hardness,
                                                springDamping),
                     !.before = springs.point,
                     !.target = target,
                     !.by = "spline",
                     !.hardness = hardness,
                     !.n = @ + 1,
                     !.still = @ /\ target = springs.first /\ hardness = springHardness]
  /\ UNCHANGED <<viz, poseVars, smoothingFactor, maskVars, drawn, run, observed,
                 probe, sensors, sketch>>

StepSpringy ==
  /\ springs.n < MaxMoves
  /\ \E ideal \in StepTargets, elasticity \in Elasticities :
       springs' = [springs EXCEPT
                     !.point = stepControlPoint(springs.point, ideal, elasticity),
                     !.before = springs.point,
                     !.target = ideal,
                     !.by = "springy",
                     !.elasticity = elasticity,
                     !.n = @ + 1,
                     !.still = FALSE]
  /\ UNCHANGED <<viz, poseVars, smoothingFactor, maskVars, drawn, run, observed,
                 probe, sensors, sketch>>

NextStep == StepSpline \/ StepSpringy

SpecStep == InitStep /\ [][NextStep]_vars

(***************************************************************************)
(* SpecSpline: a SpringSplineVisualizer between detector callbacks and     *)
(* frames.  springs holds the visualizer, the curves of the last frame,    *)
(* and for the observer the connections whose present spring has been      *)
(* stepped or drawn.                                                       *)
(***************************************************************************)
MaxSplineFrames == 3

FaintNose == Variant({0}, {}, -1, 0)

SplineReports ==
  { <<>>, <<StandingPose>>, <<FaintKnee>>, <<FaintNose>>, <<TallPose, StandingPose>> }

InitSpline ==
  /\ SketchAfterSetup(Constructor("white"), DefaultFactor, NoStoredMask)
  /\ springs = [spline |-> SplineConstructor, curves |-> <<>>, used |-> {},
                frames |-> 0, calls |-> 0]
  /\ sensors = NoSensors

SplineDetect ==
  /\ springs.calls < MaxCallbacks
  /\ \E r \in SplineReports :
       \E o \in {SplineGotPoses(springs.spline, r)} :
         springs' = [springs EXCEPT
                       !.spline = o,
                       !.curves = <<>>,
                       !.used = IF o.springs = springs.spline.springs THEN @ ELSE {},
                       !.calls = @ + 1]
  /\ UNCHANGED <<viz, poseVars, smoothingFactor, maskVars, drawn, run, observed,
                 probe, sensors, sketch>>

SplineFrame ==
  /\ springs.frames < MaxSplineFrames
  /\ \E r \in {SplineDraw(springs.spline)} :
       springs' = [springs EXCEPT
                     !.spline = r.o,
                     !.curves = r.curves,
                     !.used = @ \cup {j \in 1..Len(r.o.springs) :
                                        \/ j <= Len(r.curves)
                                        \/ r.o.springs[j] # springs.spline.springs[j]},
                     !.frames = @ + 1]
  /\ UNCHANGED <<viz, poseVars, smoothingFactor, maskVars, drawn, run, observed,
                 probe, sensors, sketch>>

NextSpline == SplineDetect \/ SplineFrame

SpecSpline == InitSpline /\ [][NextSpline]_vars

(***************************************************************************)
(* SpecSensor: the sketch with its sensor port.  A frame reads the         *)
(* messages the port holds (or the simulated reading), sets the trail      *)
(* parameters and the elasticity from the sensors, and draws.  sensors     *)
(* holds the sketch's sensor globals and, for the observer, the frames so  *)
(* far, the last elasticity asked for, and whether the last frame found a  *)
(* sensor in motion in XY.                                                 *)
(***************************************************************************)
MaxSensorFrames == 5
MaxPresses == 2

SensorSetup(serial, opened) ==
  [serial |-> serial, opened |-> opened, simulationMode |-> FALSE,
   sensorData |-> [i \in {} |-> SensorStream(i)],
   mostDynamicSensor |-> NoSensor,
   sensorTrailInterval |-> DefaultTrailInterval,
   sensorTrailCount |-> DefaultTrailMaxFrames,
   frames |-> 0, presses |-> 0, moving |-> FALSE, framed |-> FALSE,
   requested |-> [made |-> FALSE, value |-> 0]]

Reading(x, y, z) == [type |-> "m", id |-> 1, nan |-> FALSE, x |-> x, y |-> y, z |-> z]
NotANumber == [type |-> "m", id |-> 1, nan |-> TRUE, x |-> 0, y |-> 0, z |-> 0]
Registration == [type |-> "S", id |-> 1, nan |-> FALSE, x |-> 0, y |-> 0, z |-> 0]

\* The sensor lying still, and half of the samples of a calibration.
Still == Reading(0, 0, 1000)
HalfCalibration == [i \in 1..(CalibrationSamples \div 2) |-> Still]

\* Messages of one frame: none, a registration, half a calibration, a reading
\* that is not a number, and readings with a motion of 60 in XY and 600 in Z,
\* of 500 in XY, of 5000 in XY, of 2000 in Z and of 3000 in Z.
SensorMessages ==
  { <<>>, <<Registration>>, HalfCalibration, <<NotANumber>>, <<Still>>,
    <<Reading(60, 0, 1600)>>, <<Reading(300, 400, 1000)>>,
    <<Reading(3000, 4000, 1000)>>, <<Reading(0, 0, 3000)>>, <<Reading(0, 0, 4000)>> }

\* The simulated readings: the mouse in the middle, and towards a corner.
SimulatedReadings == {Reading(0, 0, 0), Reading(600, 800, 400)}

\* draw of the sketch.
SketchDraw(msgs, simulated) ==
  \E sn \in {IF sensors.simulationMode THEN updateSimulation(sensors, simulated)
             ELSE readSensorData(sensors, msgs)} :
    \E u \in {SketchUpdateTrailParameters(sn, viz)} :
      \E r \in {IF maskEditMode
                THEN [viz |-> u.viz] @@ NothingDrawn
                ELSE draw(SeeFrame(u.viz), poses)} :
        /\ viz' = r.viz
        /\ drawn' = [sticks |-> r.sticks, trail |-> r.trail, reached |-> r.reached,
                     captureInvoked |-> r.captureInvoked, frame |-> TRUE, cleared |-> 0]
        /\ run' = -1
        /\ sensors' = [sn EXCEPT
                         !.mostDynamicSensor = u.mostDynamicSensor,
                         !.sensorTrailInterval = u.sensorTrailInterval,
                         !.sensorTrailCount = u.sensorTrailCount,
                         !.frames = IF @ < MaxSensorFrames THEN @ + 1 ELSE @,
                         !.moving = u.moving,
                         !.framed = TRUE,
                         !.requested = IF u.asked
                                       THEN [made |-> TRUE, value |-> u.zInfluence]
                                       ELSE [made |-> FALSE, value |-> 0]]
        /\ sketch' = [sketch EXCEPT !.maskEditorMetrics = @ \/ maskEditMode]
        /\ UNCHANGED <<poseVars, smoothingFactor, maskVars, observed, probe, springs>>

\* keyPressed, P: simulation where there is no serial port, else the port
\* is opened.
KeyP ==
  /\ ~sensors.simulationMode /\ ~sensors.opened
  /\ sensors' = [(IF ~sensors.serial THEN enableSensorSimulation(sensors)
                  ELSE [sensors EXCEPT !.opened = TRUE])
                 EXCEPT !.framed = FALSE]
  /\ UNCHANGED <<viz, poseVars, smoothingFactor, maskVars, drawn, run, observed,
                 probe, springs, sketch>>

\* keyPressed, + and -, for the visualizer followed.
KeyElasticity(delta) ==
  /\ viz.kind = "springy"
  /\ viz' = setElasticity(viz, getElasticity(viz) + delta)
  /\ sensors' = [sensors EXCEPT
                   !.presses = @ + 1,
                   !.framed = FALSE,
                   !.requested = [made |-> TRUE, value |-> getElasticity(viz) + delta]]
  /\ UNCHANGED <<poseVars, smoothingFactor, maskVars, drawn, run, observed,
                 probe, springs, sketch>>

KeyPlus == sensors.presses < MaxPresses /\ KeyElasticity(10)
KeyMinus == sensors.presses < MaxPresses /\ KeyElasticity(-10)

\* Five seconds pass without an update of any sensor.
SensorsSilent ==
  /\ \E i \in DOMAIN sensors.sensorData : sensors.sensorData[i].fresh
  /\ sensors' = [sensors EXCEPT
                   !.sensorData = [i \in DOMAIN @ |-> [@[i] EXCEPT !.fresh = FALSE]],
                   !.framed = FALSE]
  /\ UNCHANGED <<viz, poseVars, smoothingFactor, maskVars, drawn, run, observed,
                 probe, springs, sketch>>

InitSensor ==
  /\ \E kind \in {"white", "springy"} :
       SketchAfterSetup(Constructor(kind), DefaultFactor, NoStoredMask)
  /\ \E serial \in BOOLEAN, opened \in BOOLEAN :
       /\ opened => serial
       /\ sensors = SensorSetup(serial, opened)
  /\ springs = NoSprings

SensorFrame ==
  /\ sensors.frames < MaxSensorFrames
  /\ \E msgs \in SensorMessages, simulated \in SimulatedReadings :
       SketchDraw(msgs, simulated)

NextSensor == SensorFrame \/ KeyP \/ KeyPlus \/ KeyMinus \/ SensorsSilent

SpecSensor == InitSensor /\ [][NextSensor]_vars

(***************************************************************************)
(* SpecSelect: two sensors on the open port.  Each frame reads the         *)
(* messages of one sensor (half a calibration while it calibrates, then a  *)
(* reading) and chooses the most dynamic sensor; between frames a sensor   *)
(* may stay without an update for five seconds.                            *)
(***************************************************************************)
SensorIds == {1, 2}

From(id, msgs) == [k \in DOMAIN msgs |-> [msgs[k] EXCEPT !.id = id]]

\* Readings at motion levels 0, 1 and 3 of a sensor calibrated lying still.
SelectReadings == {<<Still>>, <<Reading(300, 0, 1000)>>, <<Reading(1500, 0, 1000)>>}

SelectMessages(sensorData) ==
  {<<>>} \cup
  UNION {IF id \in DOMAIN sensorData /\ ~sensorData[id].calibrating
         THEN {From(id, m) : m \in SelectReadings}
         ELSE {From(id, HalfCalibration)} : id \in SensorIds}

InitSelect ==
  /\ SketchAfterSetup(Constructor("white"), DefaultFactor, NoStoredMask)
  /\ sensors = SensorSetup(TRUE, TRUE)
  /\ springs = NoSprings

SelectFrame ==
  \E msgs \in SelectMessages(sensors.sensorData) : SketchDraw(msgs, Still)

\* Five seconds pass without an update of one sensor.
SensorSilent ==
  \E id \in DOMAIN sensors.sensorData :
    /\ sensors.sensorData[id].fresh
    /\ sensors' = [sensors EXCEPT !.sensorData[id].fresh = FALSE, !.framed = FALSE]
    /\ UNCHANGED <<viz, poseVars, smoothingFactor, maskVars, drawn, run, observed,
                   probe, springs, sketch>>

NextSelect == SelectFrame \/ SensorSilent

SpecSelect == InitSelect /\ [][NextSelect]_vars

(***************************************************************************)
(* SpecEditor: the mask editor.  Keys A, E and X, the Shift key, the mouse *)
(* pressed, dragged and released at one of two places, and render frames,  *)
(* in any order.  The editor's metrics are those of a window in which a    *)
(* video pixel is one screen pixel.                                        *)
(***************************************************************************)
MaxMaskPoints == 2

MousePlaces == {Pt(0, 0), Pt(100, 0)}

EditorMasks == {NoStoredMask, saveDetectionMask(<<Pt(0, 0), Pt(100, 0)>>, TRUE)}

\* (toggleMaskEditMode without the save on leaving the editor.)
toggleMaskEditModeWithoutSave(mode, points, enabled, stored) ==
  [maskEditMode |-> ~mode, storedMask |-> stored]

toggleMaskEditMode(mode, points, enabled, stored) ==
  [maskEditMode |-> ~mode,
   storedMask |-> IF ~mode THEN stored ELSE saveDetectionMask(points, enabled)]

\* keyPressed, A.
KeyA ==
  \E t \in {toggleMaskEditMode(maskEditMode, maskPoints, maskEnabled, storedMask)} :
    /\ maskEditMode' = t.maskEditMode
    /\ storedMask' = t.storedMask
    /\ drawn' = NothingDrawn
    /\ UNCHANGED <<viz, poseVars, smoothingFactor, maskEnabled, maskPoints, run,
                   observed, apartVars>>

\* keyPressed and keyReleased, Shift.
KeyShift ==
  /\ sketch' = [sketch EXCEPT !.isShiftDown = ~@]
  /\ UNCHANGED <<viz, poseVars, smoothingFactor, maskVars, drawn, run, observed,
                 probe, springs, sensors>>

\* The first mask point less than 25 pixels from the mouse, or -1.
RECURSIVE PointUnderMouse(_, _, _)
PointUnderMouse(points, mouse, i) ==
  IF i >= Len(points) THEN -1
  ELSE IF Distance(mouse.x - points[i + 1].x, mouse.y - points[i + 1].y) < 25 THEN i
  ELSE PointUnderMouse(points, mouse, i + 1)

mousePressed(g, mode, points, mouse) ==
  IF ~mode \/ ~g.maskEditorMetrics THEN [sketch |-> g, maskPoints |-> points]
  ELSE IF g.isShiftDown
       THEN [sketch |-> IF PointUnderMouse(points, mouse, 0) # -1
                        THEN [g EXCEPT !.selectedMaskPoint = PointUnderMouse(points, mouse, 0)]
                        ELSE g,
             maskPoints |-> points]
       ELSE [sketch |-> g, maskPoints |-> Append(points, mouse)]

\* mouseDragged; a selected point that does not exist ends the handler with
\* a TypeError.
mouseDragged(g, mode, points, mouse) ==
  IF ~mode \/ ~g.maskEditorMetrics THEN points
  ELSE IF g.selectedMaskPoint # -1 /\ g.isShiftDown
       THEN IF g.selectedMaskPoint < Len(points)
            THEN [points EXCEPT ![g.selectedMaskPoint + 1] = mouse]
            ELSE points
       ELSE points

mouseReleased(g, mode) ==
  IF ~mode THEN g ELSE [g EXCEPT !.selectedMaskPoint = -1]

MousePressed ==
  /\ ~sketch.mouseIsPressed
  /\ \E mouse \in MousePlaces :
       \E r \in {mousePressed(sketch, maskEditMode, maskPoints, mouse)} :
         /\ Len(r.maskPoints) <= MaxMaskPoints
         /\ sketch' = [r.sketch EXCEPT !.mouseIsPressed = TRUE]
         /\ maskPoints' = r.maskPoints
  /\ UNCHANGED <<viz, poseVars, smoothingFactor, maskEnabled, maskEditMode, storedMask,
                 drawn, run, observed, probe, springs, sensors>>

MouseDragged ==
  /\ sketch.mouseIsPressed
  /\ \E mouse \in MousePlaces :
       maskPoints' = mouseDragged(sketch, maskEditMode, maskPoints, mouse)
  /\ UNCHANGED <<viz, poseVars, smoothingFactor, maskEnabled, maskEditMode, storedMask,
                 drawn, run, observed, apartVars>>

MouseReleased ==
  /\ sketch.mouseIsPressed
  /\ sketch' = [mouseReleased(sketch, maskEditMode) EXCEPT !.mouseIsPressed = FALSE]
  /\ UNCHANGED <<viz, poseVars, smoothingFactor, maskVars, drawn, run, observed,
                 probe, springs, sensors>>

InitEditor ==
  /\ \E stored \in EditorMasks :
       SketchAfterSetup(Constructor("white"), DefaultFactor, stored)
  /\ sensors = SensorSetup(FALSE, FALSE)
  /\ springs = NoSprings

EditorFrame == \E msgs \in {<<>>} : SketchDraw(msgs, Still)

NextEditor ==
  \/ KeyA \/ KeyE \/ KeyX \/ KeyShift
  \/ MousePressed \/ MouseDragged \/ MouseReleased
  \/ EditorFrame

SpecEditor == InitEditor /\ [][NextEditor]_vars

(***************************************************************************)
(* SpecCycle: the visualizers of the two canvases.  Alt+1 and Alt+2, keys  *)
(* A and T and render frames, in any order.                                *)
(***************************************************************************)
\* keyPressed, Alt+1 (Shift not held): ignored in the mask editor.
KeyAlt1 ==
  /\ ~sketch.isShiftDown
  /\ IF maskEditMode THEN UNCHANGED sketch
     ELSE \E index \in {(sketch.viz1Index + 1) % Len(visualizers1)} :
            sketch' = [sketch EXCEPT !.viz1Index = index,
                                     !.viz1 = visualizers1[index + 1]]
  /\ UNCHANGED <<viz, poseVars, smoothingFactor, maskVars, drawn, run, observed,
                 probe, springs, sensors>>

\* keyPressed, Alt+2.
KeyAlt2 ==
  /\ ~sketch.isShiftDown
  /\ IF maskEditMode THEN UNCHANGED sketch
     ELSE \E index \in {(sketch.viz2Index + 1) % Len(visualizers2)} :
            sketch' = [sketch EXCEPT !.viz2Index = index,
                                     !.viz2 = visualizers2[index + 1]]
  /\ UNCHANGED <<viz, poseVars, smoothingFactor, maskVars, drawn, run, observed,
                 probe, springs, sensors>>

InitCycle ==
  /\ \E kind \in Kinds : SketchAfterSetup(Constructor(kind), DefaultFactor, NoStoredMask)
  /\ sensors = SensorSetup(FALSE, FALSE)
  /\ springs = NoSprings

CycleFrame == \E msgs \in {<<>>} : SketchDraw(msgs, Still)

NextCycle == KeyAlt1 \/ KeyAlt2 \/ KeyA \/ KeyT \/ CycleFrame

SpecCycle == InitCycle /\ [][NextCycle]_vars

(***************************************************************************)
(* SpecDual: the dual-canvas controller of sketch.js, which draws one      *)
(* PoseVisualizer (sharedPoseViz) through a wrapper on each canvas; the    *)
(* other two entries of each list are placeholders.  Here sketch holds     *)
(* that controller's globals: sharedPoseViz, the two indices, the          *)
(* visibility of the canvases, and the number of render frames so far.     *)
(* Key T is pressed while a canvas shows the pose visualizer.              *)
(***************************************************************************)
MaxDualFrames == 4

PoseVisualizerConstructor ==
  [poses |-> <<>>, schlemerLineLength |-> 0, previousPoses |-> <<>>,
   trailHistory |-> <<>>, trailMaxFrames |-> DefaultTrailMaxFrames,
   trailInterval |-> DefaultTrailInterval, trailFrameCounter |-> 0,
   showSchlemerTrail |-> FALSE,
   maskPoints |-> <<>>, maskEnabled |-> FALSE, smoothingFactor |-> DefaultFactor]

\* PoseVisualizer.captureTrailSnapshot
PoseCaptureTrailSnapshot(v) ==
  IF Len(v.poses) = 0 \/ v.schlemerLineLength = 0 THEN v
  ELSE LET sticks == drawSchlemerSticks(v.schlemerLineLength, v.poses)
       IN  IF Len(sticks) > 0
           THEN [v EXCEPT !.trailHistory = Append(@, [age |-> 0, sticks |-> sticks])]
           ELSE v

\* PoseVisualizer.drawSchlemerTrail
PoseDrawSchlemerTrail(v) ==
  IF v.schlemerLineLength = 0 \/ Len(v.poses) = 0 THEN v
  ELSE LET counted == [v EXCEPT !.trailFrameCounter = @ + 1]
           captured == IF counted.trailFrameCounter >= counted.trailInterval
                       THEN PoseCaptureTrailSnapshot([counted EXCEPT !.trailFrameCounter = 0])
                       ELSE counted
           aged == [t \in DOMAIN captured.trailHistory |->
                      [captured.trailHistory[t] EXCEPT !.age = @ + 1]]
       IN  [captured EXCEPT !.trailHistory =
              SelectSeq(aged, LAMBDA item : item.age <= captured.trailMaxFrames)]

\* PoseVisualizer.draw, as far as it changes the visualizer.
PoseDraw(v) == IF v.showSchlemerTrail THEN PoseDrawSchlemerTrail(v) ELSE v

\* PoseVisualizer.gotPoses
PoseGotPoses(v, r) ==
  LET smoothedResults == smoothPoses(r, v.previousPoses, v.smoothingFactor)
      filteredResults == filterPosesByMask(smoothedResults, v.maskEnabled, v.maskPoints)
      heard == [v EXCEPT !.poses = filteredResults,
                         !.previousPoses = DeepCopy(smoothedResults)]
  IN  IF v.schlemerLineLength = 0 /\ Len(filteredResults) > 0
      THEN [heard EXCEPT !.schlemerLineLength =
              calculateSchlemerLineLength(filteredResults, 0,
                                          Constructor("white")).schlemerLineLength]
      ELSE heard

\* The entries of visualizers1 and visualizers2: the wrapper, two placeholders.
DualVisualizers == <<"pose", "placeholder1", "placeholder2">>

\* draw of the controller: each visible canvas draws its visualizer; the
\* wrapper of either canvas draws sharedPoseViz.
DualDrawCanvas(v, visible, index) ==
  IF visible /\ DualVisualizers[index + 1] = "pose" THEN PoseDraw(v) ELSE v

DualSetup ==
  [sharedPoseViz |-> PoseVisualizerConstructor,
   viz1Index |-> 0, viz2Index |-> 1,
   canvas1Visible |-> TRUE, canvas2Visible |-> TRUE, frames |-> 0]

\* The variables of the other sketch stay as a setup leaves them.
InitDual ==
  /\ viz = Constructor("white")
  /\ poses = <<>>
  /\ previousPoses = <<>>
  /\ schlemerLineLength = 0
  /\ smoothingFactor = DefaultFactor
  /\ maskPoints = <<>>
  /\ maskEnabled = FALSE
  /\ maskEditMode = FALSE
  /\ storedMask = NoStoredMask
  /\ drawn = NothingDrawn
  /\ run = -1
  /\ results = <<>>
  /\ callbacks = 0
  /\ track = [i \in 1..MaxPoses |-> NoTrack]
  /\ probe = NoProbe
  /\ springs = NoSprings
  /\ sensors = NoSensors
  /\ sketch = DualSetup

DualUnchanged ==
  UNCHANGED <<viz, poseVars, smoothingFactor, maskVars, drawn, run, observed,
              probe, springs, sensors>>

\* The detector's callback of sharedPoseViz.
DualGotPoses ==
  /\ \E r \in {<<>>, <<StandingPose>>} :
       sketch' = [sketch EXCEPT !.sharedPoseViz = PoseGotPoses(@, r)]
  /\ DualUnchanged

\* keyPressed, T: the one instance, if a canvas shows its wrapper.
DualKeyT ==
  /\ \/ DualVisualizers[sketch.viz1Index + 1] = "pose"
     \/ DualVisualizers[sketch.viz2Index + 1] = "pose"
  /\ sketch' = [sketch EXCEPT !.sharedPoseViz =
                  IF @.showSchlemerTrail
                  THEN [@ EXCEPT !.showSchlemerTrail = FALSE,
                                 !.trailHistory = <<>>, !.trailFrameCounter = 0]
                  ELSE [@ EXCEPT !.showSchlemerTrail = TRUE]]
  /\ DualUnchanged

\* keyPressed, Alt+1 and Alt+2.
DualKeyAlt1 ==
  /\ sketch' = [sketch EXCEPT !.viz1Index = (@ + 1) % Len(DualVisualizers)]
  /\ DualUnchanged

DualKeyAlt2 ==
  /\ sketch' = [sketch EXCEPT !.viz2Index = (@ + 1) % Len(DualVisualizers)]
  /\ DualUnchanged

\* keyPressed, Shift+1 and Shift+2.
DualKeyShift1 ==
  /\ sketch' = [sketch EXCEPT !.canvas1Visible = ~@]
  /\ DualUnchanged

DualKeyShift2 ==
  /\ sketch' = [sketch EXCEPT !.canvas2Visible = ~@]
  /\ DualUnchanged

\* One render frame: canvas 1, then canvas 2.
DualDraw ==
  /\ sketch.frames < MaxDualFrames
  /\ sketch' = [sketch EXCEPT
                  !.sharedPoseViz =
                    DualDrawCanvas(DualDrawCanvas(@, sketch.canvas1Visible, sketch.viz1Index),
                                   sketch.canvas2Visible, sketch.viz2Index),
                  !.frames = @ + 1]
  /\ DualUnchanged

NextDual ==
  \/ DualGotPoses \/ DualKeyT \/ DualKeyAlt1 \/ DualKeyAlt2
  \/ DualKeyShift1 \/ DualKeyShift2 \/ DualDraw

SpecDual == InitDual /\ [][NextDual]_vars

(***************************************************************************)
(* SpecSteady: the trail with trailInterval and trailMaxFrames as set once *)
(* after construction: SpecTrail without later changes of the parameters.  *)
(***************************************************************************)
NextSteady == DetectTrail \/ KeyK \/ KeyT \/ DrawFrame

SpecSteady == InitTrail /\ [][NextSteady]_vars

(***************************************************************************)
(* SpecCalibrate: two sensors on a serial port.  Each frame reads the      *)
(* messages of one sensor: its registration, a sample that is not a        *)
(* number, half a calibration (lying still or moved) while it calibrates   *)
(* and a reading afterwards.                                               *)
(***************************************************************************)
HalfMoved == [i \in 1..(CalibrationSamples \div 2) |-> Reading(60, 0, 1600)]

CalibrateMessages(sensorData) ==
  {<<>>} \cup
  UNION {{From(id, <<Registration>>), From(id, <<NotANumber>>)} \cup
         (IF id \in DOMAIN sensorData /\ ~sensorData[id].calibrating
          THEN {From(id, m) : m \in SelectReadings}
          ELSE {From(id, HalfCalibration), From(id, HalfMoved)}) : id \in SensorIds}

InitCalibrate ==
  /\ SketchAfterSetup(Constructor("white"), DefaultFactor, NoStoredMask)
  /\ \E opened \in BOOLEAN : sensors = SensorSetup(TRUE, opened)
  /\ springs = NoSprings

CalibrateFrame ==
  \E msgs \in CalibrateMessages(sensors.sensorData) : SketchDraw(msgs, Still)

NextCalibrate == CalibrateFrame \/ KeyP \/ SensorSilent

SpecCalibrate == InitCalibrate /\ [][NextCalibrate]_vars

(***************************************************************************)
(* SpecLength: calibration of the stick length, between detector           *)
(* callbacks, frames and the keys R and K, for people of two heights.      *)
(***************************************************************************)
LengthReports ==
  { <<>>, <<StandingPose>>, <<TallPose>>, <<FaintNose>>, <<TallPose, StandingPose>> }

InitLength ==
  \E kind \in Kinds, factor \in {0, FactorDen} :
    AfterSetup(Constructor(kind), factor, NoStoredMask)

DetectLength ==
  \E r \in LengthReports : GotPoses(r) /\ UNCHANGED <<run, observed>>

NextLength == DetectLength \/ KeyR \/ KeyK \/ DrawFrame

SpecLength == InitLength /\ [][NextLength]_vars

(***************************************************************************)
(* SpecIdle: the sketch while no sensor moves in XY: no port, a silent     *)
(* port, a sensor calibrating, lying still, or moving in Z only, for as    *)
(* many frames as it takes the frame counter of the trail to come round.   *)
(***************************************************************************)
\* Sensor 1 lies still until it is calibrated; then it lies still or moves by
\* 60 in XY and 600 in Z.
IdleMessages(sensorData) ==
  IF 1 \in DOMAIN sensorData /\ ~sensorData[1].calibrating
  THEN { <<>>, <<Still>>, <<Reading(60, 0, 1600)>> }
  ELSE { <<>>, HalfCalibration }
IdleSimulated == {Reading(0, 0, 0)}

InitIdle ==
  /\ SketchAfterSetup(Constructor("white"), DefaultFactor, NoStoredMask)
  /\ \E serial \in BOOLEAN : sensors = SensorSetup(serial, FALSE)
  /\ springs = NoSprings

DetectIdle ==
  \E r \in {<<>>, <<StandingPose>>} :
    /\ GotPoses(r)
    /\ UNCHANGED <<run, observed>>

IdleFrame ==
  \E msgs \in IdleMessages(sensors.sensorData), simulated \in IdleSimulated :
    SketchDraw(msgs, simulated)

NextIdle == DetectIdle \/ KeyT \/ KeyP \/ IdleFrame \/ SensorsSilent

SpecIdle == InitIdle /\ [][NextIdle]_vars

(***************************************************************************)
(* Claims about the trail buffer, checked under SpecTrail.                 *)
(***************************************************************************)
\* The program's part of a stored snapshot.
Stored(h) == [n \in 1..Len(h) |-> [age |-> h[n].age, sticks |-> h[n].sticks]]

OneOlder(h) == [n \in 1..Len(h) |-> [age |-> h[n].age + 1, sticks |-> h[n].sticks]]

RECURSIVE Survivors(_, _)
Survivors(h, maxFrames) ==
  IF h = <<>> THEN <<>>
  ELSE (IF Head(h).age <= maxFrames THEN <<Head(h)>> ELSE <<>>)
       \o Survivors(Tail(h), maxFrames)

\* The lines of the survivors, the last stored snapshot first.
RECURSIVE LinesOf(_, _, _)
LinesOf(h, n, maxFrames) ==
  IF n < 1 THEN <<>>
  ELSE [m \in 1..Len(h[n].sticks) |->
          [stick |-> h[n].sticks[m],
           fadeNum |-> maxFrames - h[n].age, fadeDen |-> maxFrames]]
       \o LinesOf(h, n - 1, maxFrames)

AgingStep ==
  drawn'.reached =>
    LET maxFrames == viz.trailMaxFrames
        old == Survivors(OneOlder(Stored(viz.trailHistory)), maxFrames)
        now == Stored(viz'.trailHistory)
    IN  /\ Len(now) \in {Len(old), Len(old) + 1}
        /\ SubSeq(now, 1, Len(old)) = old
        /\ Len(now) > Len(old) => drawn'.captureInvoked /\ now[Len(now)].age = 1
        /\ \A n \in 1..Len(now) : now[n].age <= maxFrames
        /\ drawn'.trail = LinesOf(now, Len(now), maxFrames)
        /\ \A n \in 1..Len(viz.trailHistory) :
             viz.trailHistory[n].age + 1 = maxFrames =>
               \E m \in 1..Len(now) :
                 /\ now[m].age = maxFrames
                 /\ \E l \in 1..Len(drawn'.trail) : drawn'.trail[l].fadeNum = 0

\* C1: a drawSchlemerTrail call that reaches its aging loop ages every stored
\* snapshot by exactly 1, removes exactly those whose age then exceeds
\* trailMaxFrames, and draws every survivor with fadeFactor 1 - age/trailMaxFrames;
\* a snapshot whose age equals trailMaxFrames stays and is drawn with fadeFactor 0.
C1_AgingLoop == [][AgingStep]_vars

C1_Witness ==
  /\ drawn.reached
  /\ Len(viz.trailHistory) >= 2
  /\ viz.trailHistory[1].age = viz.trailMaxFrames
  /\ \E l \in 1..Len(drawn.trail) : drawn.trail[l].fadeNum = 0
  /\ \E l \in 1..Len(drawn.trail) : drawn.trail[l].fadeNum > 0

\* C2: with trailMaxFrames = M unchanged, a snapshot is gone from trailHistory
\* after M + 1 render frames of the visualizer that follow the frame of its
\* capture, whatever pose lists were published meanwhile.
C2_GoneAfterMaxFrames ==
  \A n \in 1..Len(viz.trailHistory) :
    viz.trailHistory[n].seen >= 0 => viz.trailHistory[n].seen <= viz.trailMaxFrames

\* C3: with trails on, a stick length, a pose list and trailInterval = k >= 1
\* unchanged, captureTrailSnapshot is invoked on exactly every k-th render
\* frame, which resets trailFrameCounter to 0, and 0 <= trailFrameCounter < k
\* after every render frame.
C3_CaptureCadence ==
  /\ run >= 0 =>
       /\ viz.trailFrameCounter = run
       /\ drawn.reached => (drawn.captureInvoked <=> run = 0)
  /\ drawn.reached =>
       /\ 0 <= viz.trailFrameCounter
       /\ viz.trailFrameCounter < viz.trailInterval

C3_Witness ==
  /\ run = 0
  /\ drawn.reached
  /\ drawn.captureInvoked
  /\ viz.trailInterval >= 2
  /\ Len(viz.trailHistory) >= 1

\* C4: a visualizer whose showSchlemerTrail reads false has an empty
\* trailHistory and trailFrameCounter = 0, so that re-enabling trails starts
\* from no snapshot.
C4_TrailOffIsEmpty ==
  ~GetShowTrail(viz) => viz.trailHistory = <<>> /\ viz.trailFrameCounter = 0

C4_Witness ==
  /\ ~GetShowTrail(viz)
  /\ viz.kind # "clear"
  /\ drawn.cleared >= 2

(***************************************************************************)
(* Claims about the mask filter and the smoother, checked under SpecPoses. *)
(***************************************************************************)
\* The side of the line from a to b on which p lies (0: on the line).
Cross(a, b, p) == (b.x - a.x) * (p.y - a.y) - (b.y - a.y) * (p.x - a.x)

Sides(p, polygon) ==
  {Cross(polygon[i], polygon[(i % Len(polygon)) + 1], p) : i \in 1..Len(polygon)}

\* p lies inside the convex polygon: strictly on one side of every edge.  For
\* a point of the boundary the source's convention is taken.
LiesInside(p, polygon) ==
  IF (\A s \in Sides(p, polygon) : s > 0) \/ (\A s \in Sides(p, polygon) : s < 0)
  THEN TRUE
  ELSE IF (\A s \in Sides(p, polygon) : s >= 0) \/ (\A s \in Sides(p, polygon) : s <= 0)
       THEN isPointInPolygon(p, polygon)
       ELSE FALSE

InsideCount(pose, polygon) ==
  Cardinality({k \in 1..Len(pose.keypoints) :
                 /\ pose.keypoints[k].confidence > ConfThreshold
                 /\ LiesInside(pose.keypoints[k], polygon)})

Survives(pose, polygon) == 4 * InsideCount(pose, polygon) >= Len(pose.keypoints)

Among(pose, ps) == \E m \in 1..Len(ps) : ps[m] = pose

\* A callback's filter input is its smoothed list (previousPoses afterwards),
\* the filter's output the published list.
FilterStep ==
  callbacks' # callbacks =>
    IF ~maskEnabled \/ Len(maskPoints) < 3
    THEN poses' = previousPoses'
    ELSE /\ poses' = SelectSeq(previousPoses', LAMBDA p : Survives(p, maskPoints))
         /\ \A i \in 1..Len(previousPoses') :
              Len(previousPoses'[i].keypoints) = NumKeypoints =>
                /\ InsideCount(previousPoses'[i], maskPoints) = 5 =>
                     Among(previousPoses'[i], poses')
                /\ InsideCount(previousPoses'[i], maskPoints) = 4 =>
                     ~Among(previousPoses'[i], poses')

PassThroughStep ==
  callbacks' # callbacks =>
    /\ previousPoses = <<>> =>
         smoothPoses(results', previousPoses, smoothingFactor) = results'
    /\ Len(smoothPoses(results', previousPoses, smoothingFactor)) = Len(results')
    /\ \A i \in 1..Len(results') :
         i > Len(previousPoses) =>
           smoothPoses(results', previousPoses, smoothingFactor)[i] = results'[i]

\* C6: smoothPoses returns newPoses unchanged when previousPoses is empty, and
\* otherwise returns unchanged every pose at an index past the end of
\* previousPoses, for every factor.
C6_PassThrough == [][PassThroughStep]_vars

C6_Witness ==
  /\ callbacks >= 2
  /\ Len(previousPoses) = 2
  /\ track[2].n = 1
  /\ track[2].start = <<>>
  /\ previousPoses[2] = results[2]
  /\ track[1].start # <<>>
  /\ ~SamePositions(previousPoses[1], results[1])

Smoothed(kp, prevKp, newKp, factor) ==
  /\ kp.x * FactorDen = prevKp.x * (FactorDen - factor) + newKp.x * factor
  /\ kp.y * FactorDen = prevKp.y * (FactorDen - factor) + newKp.y * factor
  /\ kp.confidence = newKp.confidence
  /\ kp.name = newKp.name

SmoothStep ==
  callbacks' # callbacks =>
    \A i \in 1..Len(results') :
      i <= Len(previousPoses) =>
        \A j \in 1..Len(results'[i].keypoints) :
          Smoothed(smoothPoses(results', previousPoses, smoothingFactor)[i].keypoints[j],
                   previousPoses[i].keypoints[j], results'[i].keypoints[j],
                   smoothingFactor)

\* C7: for every pose index present in both lists and every keypoint,
\* smoothPoses outputs x = prev.x*(1-factor) + new.x*factor and
\* y = prev.y*(1-factor) + new.y*factor, with confidence and name of the new
\* keypoint.
C7_SmoothingFormula == [][SmoothStep]_vars

C7_Witness ==
  /\ callbacks >= 2
  /\ smoothingFactor \in 1..(FactorDen - 1)
  /\ 2 * smoothingFactor # FactorDen
  /\ Len(previousPoses) >= 1
  /\ track[1].n = 1
  /\ track[1].start # <<>>
  /\ ~SamePositions(track[1].start[1], results[1])
  /\ ~SamePositions(previousPoses[1], results[1])
  /\ ~SamePositions(previousPoses[1], track[1].start[1])

\* C8, as stated: with smoothingFactor = 0, every pose published after the
\* first published one has the keypoint positions of the first published one,
\* whatever the detector reports.
C8_FrozenForever ==
  smoothingFactor = 0 =>
    \A i \in 1..Len(previousPoses) :
      track[i].kept => SamePositions(previousPoses[i], track[i].origin[1])

\* C8, amended: with smoothingFactor = 0, the pose smoothed at list index i,
\* and so every published pose, has the keypoint positions of the pose
\* reported at index i by the first callback since previousPoses last had no
\* pose at index i.
C8_FrozenWhileReported ==
  smoothingFactor = 0 =>
    /\ \A i \in 1..Len(previousPoses) :
         /\ track[i].first # <<>>
         /\ SamePositions(previousPoses[i], track[i].first[1])
    /\ \A m \in 1..Len(poses) : Among(poses[m], previousPoses)

C8_Witness ==
  /\ smoothingFactor = 0
  /\ callbacks >= 2
  /\ Len(poses) >= 1
  /\ track[1].kept
  /\ ~SamePositions(results[1], previousPoses[1])
  /\ SamePositions(poses[1], track[1].first[1])

\* The error of the smoothed pose i, relative to the report, is the error of
\* base times ((FactorDen - smoothingFactor) / FactorDen)^n.
GeometricFrom(base, i, n) ==
  \A j \in 1..Len(results[i].keypoints) :
    /\ (previousPoses[i].keypoints[j].x - results[i].keypoints[j].x) * Pow(FactorDen, n)
         = (base.keypoints[j].x - results[i].keypoints[j].x)
             * Pow(FactorDen - smoothingFactor, n)
    /\ (previousPoses[i].keypoints[j].y - results[i].keypoints[j].y) * Pow(FactorDen, n)
         = (base.keypoints[j].y - results[i].keypoints[j].y)
             * Pow(FactorDen - smoothingFactor, n)

\* A coordinate after n callbacks that report target, with factor num/den.
RECURSIVE HeldFor(_, _, _, _, _)
HeldFor(position, target, num, den, n) ==
  IF n = 0 THEN position
  ELSE HeldFor(Blend(position, target, num, den), target, num, den, n - 1)

\* C9: after N callbacks in a row that report the same position at list index
\* i, with the factor f, the error of the smoothed position (the published
\* one, every published pose being a smoothed one) is (1-f)^N times the error
\* of the position the callback before them left in previousPoses[i]; from an
\* error of 100 with f = 0.5, ten callbacks leave 100/1024.
C9_ErrorFromPrevious ==
  /\ \A i \in 1..Len(previousPoses) :
       track[i].n >= 1 /\ track[i].start # <<>> =>
         GeometricFrom(track[i].start[1], i, track[i].n)
  /\ \A m \in 1..Len(poses) : Among(poses[m], previousPoses)
  /\ HeldFor(100 * Pow(2, 10), 0, 1, 2, 10) = 100

C9_Witness ==
  \E i \in 1..Len(previousPoses) :
    /\ track[i].n = 2
    /\ track[i].kept
    /\ track[i].start # <<>>
    /\ smoothingFactor \in 1..(FactorDen - 1)
    /\ ~SamePositions(track[i].start[1], results[i])
    /\ ~SamePositions(previousPoses[i], results[i])

(***************************************************************************)
(* Claims about the stick resolver, checked under SpecStick.               *)
(***************************************************************************)
Eligible(pose, conn) ==
  /\ Kp(pose, conn.lower).confidence > ConfThreshold
  /\ Kp(pose, conn.upper).confidence > ConfThreshold
  /\ \/ Kp(pose, conn.lower).x # Kp(pose, conn.upper).x
     \/ Kp(pose, conn.lower).y # Kp(pose, conn.upper).y

NumConns == Len(configureSchlemerConnections)

\* Every (pose, connection), poses first, both in their order.
Calls(ps) ==
  [n \in 1..(Len(ps) * NumConns) |->
     [pose |-> (n - 1) \div NumConns, conn |-> (n - 1) % NumConns]]

ExpectedCalls(ps) ==
  SelectSeq(Calls(ps),
            LAMBDA c : Eligible(ps[c.pose + 1], configureSchlemerConnections[c.conn + 1]))

TagsOf(tagged) ==
  [n \in 1..Len(tagged) |-> [pose |-> tagged[n].pose, conn |-> tagged[n].conn]]

\* The snapshots captured by the render frame that just ran.
NewSnapshots(v) == SelectSeq(v.trailHistory, LAMBDA s : s.seen = 0)

\* C10: with a non-zero stick length, drawSchlemerSticks and
\* captureTrailSnapshot emit, pose by pose and in the order of the connection
\* table, exactly one segment for every connection whose two keypoints are
\* confident (> 0.1) and apart, whatever was skipped before it; with stick
\* length 0 they emit nothing.
C10_OneSegmentPerConnection ==
  drawn.frame =>
    /\ TagsOf(drawn.sticks) =
         IF viz.schlemerLineLength = 0 THEN <<>> ELSE ExpectedCalls(poses)
    /\ IF drawn.captureInvoked /\ ExpectedCalls(viz.poses) # <<>>
       THEN /\ Len(NewSnapshots(viz)) = 1
            /\ Len(NewSnapshots(viz)[1].sticks) = Len(ExpectedCalls(viz.poses))
            /\ NewSnapshots(viz)[1].sticks = Untag(drawn.sticks)
       ELSE NewSnapshots(viz) = <<>>

C10_Witness ==
  /\ drawn.frame
  /\ drawn.captureInvoked
  /\ Len(NewSnapshots(viz)) = 1
  /\ Len(poses) = 2
  /\ \E c \in 1..NumConns :
       /\ Kp(poses[1], configureSchlemerConnections[c].lower).confidence = ConfThreshold
       /\ \A n \in 1..Len(drawn.sticks) :
            ~(drawn.sticks[n].pose = 0 /\ drawn.sticks[n].conn = c - 1)
  /\ \E c \in 1..(NumConns - 1) :
       /\ Kp(poses[2], configureSchlemerConnections[c].lower).confidence > ConfThreshold
       /\ Kp(poses[2], configureSchlemerConnections[c].upper).confidence > ConfThreshold
       /\ ~Eligible(poses[2], configureSchlemerConnections[c])
       /\ \E n \in 1..Len(drawn.sticks) :
            drawn.sticks[n].pose = 1 /\ drawn.sticks[n].conn = c
  /\ Len(drawn.sticks) < 2 * NumConns

\* The segment of line() call c (a tagged stick) has the length
\* lineLength * lengthRatio and lies along the direction from the lower to
\* the upper keypoint, from the lower keypoint or around the midpoint of the
\* two.  Stated for the calls whose keypoint distance is a whole number (the
\* model's root is exact for those), without division.
OnTarget(c, pose, conn, lineLength) ==
  \E p1 \in {Kp(pose, conn.lower)}, p2 \in {Kp(pose, conn.upper)} :
    \E len \in {Distance(p2.x - p1.x, p2.y - p1.y)} :
      len * len = (p2.x - p1.x) * (p2.x - p1.x) + (p2.y - p1.y) * (p2.y - p1.y) =>
        /\ conn.ratioDen * conn.ratioDen
             * ((c.stick.endX - c.stick.startX) * (c.stick.endX - c.stick.startX)
                + (c.stick.endY - c.stick.startY) * (c.stick.endY - c.stick.startY))
           = (lineLength * conn.ratioNum) * (lineLength * conn.ratioNum)
        /\ conn.ratioDen * (c.stick.endX - c.stick.startX) * len
             = (p2.x - p1.x) * lineLength * conn.ratioNum
        /\ conn.ratioDen * (c.stick.endY - c.stick.startY) * len
             = (p2.y - p1.y) * lineLength * conn.ratioNum
        /\ IF conn.centered
           THEN /\ c.stick.startX + c.stick.endX = p1.x + p2.x
                /\ c.stick.startY + c.stick.endY = p1.y + p2.y
           ELSE /\ c.stick.startX = p1.x
                /\ c.stick.startY = p1.y

WholeDistance(pose, conn) ==
  \E len \in {Distance(Kp(pose, conn.upper).x - Kp(pose, conn.lower).x,
                       Kp(pose, conn.upper).y - Kp(pose, conn.lower).y)} :
    len * len = (Kp(pose, conn.upper).x - Kp(pose, conn.lower).x)
                  * (Kp(pose, conn.upper).x - Kp(pose, conn.lower).x)
                + (Kp(pose, conn.upper).y - Kp(pose, conn.lower).y)
                  * (Kp(pose, conn.upper).y - Kp(pose, conn.lower).y)

\* C11: every segment drawn, and every segment captured into a snapshot, has
\* the length stick length * lengthRatio whatever the distance of its two
\* keypoints: a non-centered one starts at the lower keypoint and ends that
\* far along the direction to the upper one, a centered one has the midpoint
\* of the two keypoints as its midpoint and extends half that length to each
\* side.
C11_SegmentLengthAndPlace ==
  drawn.frame =>
    /\ \A n \in 1..Len(drawn.sticks) :
         OnTarget(drawn.sticks[n], poses[drawn.sticks[n].pose + 1],
                  configureSchlemerConnections[drawn.sticks[n].conn + 1],
                  viz.schlemerLineLength)
    /\ \A m \in 1..Len(NewSnapshots(viz)) :
         NewSnapshots(viz)[m].sticks = Untag(drawn.sticks)

C11_Witness ==
  /\ drawn.frame
  /\ poses = <<StandingPose, TallPose>>
  /\ Len(drawn.sticks) = 2 * NumConns
  /\ Len(NewSnapshots(viz)) = 1
  /\ \A n \in 1..Len(drawn.sticks) :
       WholeDistance(poses[drawn.sticks[n].pose + 1],
                     configureSchlemerConnections[drawn.sticks[n].conn + 1])
  /\ drawn.sticks[NumConns].stick.startX - drawn.sticks[NumConns].stick.endX
       = drawn.sticks[2 * NumConns].stick.startX - drawn.sticks[2 * NumConns].stick.endX
  /\ drawn.sticks[NumConns].stick.startX # drawn.sticks[NumConns].stick.endX

(***************************************************************************)
(* Claims about isPointInPolygon, checked under SpecPolygon.               *)
(***************************************************************************)
\* The edge from a to b crosses the ray from p towards +x, an edge owning its
\* lower end and not its upper one: p is not below the lower end, is below
\* the upper end, and lies to the left of the edge directed upwards.
Crosses(p, a, b) ==
  \/ a.y <= p.y /\ p.y < b.y /\ Cross(a, b, p) > 0
  \/ b.y <= p.y /\ p.y < a.y /\ Cross(b, a, p) > 0

\* The vertex after and before vertex k.
After(polygon, k) == polygon[(k % Len(polygon)) + 1]
Before(polygon, k) == polygon[((k + Len(polygon) - 2) % Len(polygon)) + 1]

CrossingEdges(p, polygon) ==
  {k \in 1..Len(polygon) : Crosses(p, polygon[k], After(polygon, k))}

\* How many of the two edges at vertex k the source counts for the ray of p.
CountedAt(p, polygon, k) ==
  (IF Intersect(p, polygon[k], Before(polygon, k)) THEN 1 ELSE 0)
  + (IF Intersect(p, After(polygon, k), polygon[k]) THEN 1 ELSE 0)

OnRay(p, v) == v.y = p.y /\ v.x > p.x

\* C12, as stated: inside iff the ray crosses an odd number of edges, a vertex
\* on the ray being counted for exactly one of its two edges.
C12_VertexCountedOnce ==
  probe.asked =>
    /\ probe.inside <=> Cardinality(CrossingEdges(probe.point, probe.polygon)) % 2 = 1
    /\ \A k \in 1..Len(probe.polygon) :
         OnRay(probe.point, probe.polygon[k]) =>
           CountedAt(probe.point, probe.polygon, k) = 1

\* C12, amended: inside iff the ray towards +x crosses an odd number of edges,
\* an edge owning its lower end and not its upper end; so a vertex on the ray
\* is counted once for each of its two neighbours that lies above it (once
\* where the boundary passes through the ray's height, twice or not at all
\* where it turns back).  For the square (0,0),(10,0),(10,10),(0,10) the point
\* (5,5) is inside and (15,5) is outside.
C12_EvenOddHalfOpen ==
  /\ probe.asked =>
       /\ probe.inside <=>
            Cardinality(CrossingEdges(probe.point, probe.polygon)) % 2 = 1
       /\ \A k \in 1..Len(probe.polygon) :
            OnRay(probe.point, probe.polygon[k]) =>
              CountedAt(probe.point, probe.polygon, k)
                = Cardinality({w \in {1, 2} :
                                 IF w = 1
                                 THEN Before(probe.polygon, k).y > probe.polygon[k].y
                                 ELSE After(probe.polygon, k).y > probe.polygon[k].y})
  /\ probe.asked /\ probe.polygon = Square /\ probe.point = Pt(5, 5) => probe.inside
  /\ probe.asked /\ probe.polygon = Square /\ probe.point = Pt(15, 5) => ~probe.inside

C12_Witness ==
  /\ probe.asked
  /\ probe.inside
  /\ \E k \in 1..Len(probe.polygon) :
       /\ OnRay(probe.point, probe.polygon[k])
       /\ CountedAt(probe.point, probe.polygon, k) = 1

(***************************************************************************)
(* Claims about the spring step, checked under SpecStep.                   *)
(***************************************************************************)
\* The velocity and position one spring step gives along one axis: the force
\* (target - position) * hardness is added to the velocity, the sum is
\* multiplied by the damping, and the position moves by the damped velocity.
AxisStep(p, v, target, hNum, hDen, dNum, dDen) ==
  LET damped == Part(v + Part(target - p, hNum, hDen), dNum, dDen)
  IN  [p |-> p + damped, v |-> damped]

StepIs(hNum, hDen, dNum, dDen) ==
  /\ [p |-> springs.point.x, v |-> springs.point.vx]
       = AxisStep(springs.before.x, springs.before.vx, springs.target.x,
                  hNum, hDen, dNum, dDen)
  /\ [p |-> springs.point.y, v |-> springs.point.vy]
       = AxisStep(springs.before.y, springs.before.vy, springs.target.y,
                  hNum, hDen, dNum, dDen)

\* C13: one spring step adds (target - position) * hardness to the velocity,
\* then multiplies the velocity by the damping, then advances the position by
\* the damped velocity; each axis on its own, from the point's own state and
\* target only, in SpringSpline's applySpringForce and in SpringyBlue's
\* drawSpringyLine alike.
C13_ForceDampAdvance ==
  /\ springs.by = "spline" => StepIs(springs.hardness, 100, springDamping, 100)
  /\ springs.by = "springy" =>
       StepIs(springStrength * springs.elasticity, 100 * 100,
              damping * 100 + 3 * (100 - springs.elasticity), 100 * 100)

C13_Witness ==
  /\ springs.by = "spline"
  /\ springs.n = 2
  /\ springs.before.vx # 0 /\ springs.before.vy # 0
  /\ springs.point.vx # springs.before.vx
  /\ springs.target # springs.first

\* What is left, along each axis, of the displacement the point started with.
LeftX == springs.point.x - springs.first.x
LeftY == springs.point.y - springs.first.y
StartX == springs.origin.x - springs.first.x
StartY == springs.origin.y - springs.first.y
Size(a) == IF a < 0 THEN -a ELSE a

AtStep60 == springs.still /\ springs.n = RestSteps

\* C14, as stated: at step 60 the point is within 1% of its initial
\* displacement from the stationary target.
C14_WithinOnePercent ==
  AtStep60 =>
    /\ 100 * Size(LeftX) <= Size(StartX)
    /\ 100 * Size(LeftY) <= Size(StartY)

\* C14, amended: with hardness 0.15 and damping 0.9 a point at rest displaced
\* from a stationary target is within 4% of its initial displacement at step
\* 60 (and, where it was displaced, still more than 3% away).
C14_WithinFourPercent ==
  AtStep60 =>
    /\ 100 * Size(LeftX) <= 4 * Size(StartX)
    /\ 100 * Size(LeftY) <= 4 * Size(StartY)
    /\ StartX # 0 => 100 * Size(LeftX) > 3 * Size(StartX)
    /\ StartY # 0 => 100 * Size(LeftY) > 3 * Size(StartY)

C14_Witness ==
  /\ AtStep60
  /\ StartX # 0 /\ StartY # 0
  /\ springs.by = "spline" /\ springs.hardness = springHardness

(***************************************************************************)
(* Claims about the springs of a visualizer, checked under SpecSpline.     *)
(***************************************************************************)
\* A frame of the SpringSplineVisualizer.
IsFrame == springs'.frames = springs.frames + 1

\* In the pose the frame reads, connection j has both keypoints confident.
Confident(o, j) ==
  /\ Len(o.poses) > 0
  /\ Kp(o.poses[1], o.springs[j].connection.lower).confidence > ConfThreshold
  /\ Kp(o.poses[1], o.springs[j].connection.upper).confidence > ConfThreshold

\* The frame's target segment for connection j, where it has one.
HasTarget(o, j) ==
  /\ Confident(o, j)
  /\ Distance(Kp(o.poses[1], o.springs[j].connection.upper).x
                - Kp(o.poses[1], o.springs[j].connection.lower).x,
              Kp(o.poses[1], o.springs[j].connection.upper).y
                - Kp(o.poses[1], o.springs[j].connection.lower).y) > 0

FrameTarget(o, j) ==
  TargetOf(Kp(o.poses[1], o.springs[j].connection.lower),
           Kp(o.poses[1], o.springs[j].connection.upper),
           o.springs[j].connection, o.schlemerLineLength)

Origin == Pt(0, 0)

\* Spring j is stepped or drawn in the frame from springs to springs'.
Touched(j) ==
  \/ j <= Len(springs'.curves)
  \/ springs'.spline.springs[j] # springs.spline.springs[j]

\* C15: in the first frame in which a connection's spring is stepped or
\* drawn, its start, end and mid points are, before any force is applied, on
\* that frame's target segment (start on its start, end on its end, mid on
\* its middle), and no curve of any frame has a spring point at the origin.
C15_FirstFrameOnTarget ==
  [][IsFrame =>
       \A j \in 1..Len(springs.spline.springs) :
         /\ (j \notin springs.used /\ Touched(j)) =>
              /\ HasTarget(springs.spline, j)
              /\ LET t == FrameTarget(springs.spline, j)
                     spring == springs.spline.springs[j]
                 IN  /\ Pt(spring.startPoint.x, spring.startPoint.y) = Pt(t.startX, t.startY)
                     /\ Pt(spring.endPoint.x, spring.endPoint.y) = Pt(t.endX, t.endY)
                     /\ Pt(spring.midPoint.x, spring.midPoint.y)
                          = Midway(Pt(t.startX, t.startY), Pt(t.endX, t.endY))
         /\ j <= Len(springs'.curves) =>
              /\ springs'.curves[j].start # Origin
              /\ springs'.curves[j].mid # Origin
              /\ springs'.curves[j].end # Origin]_vars

\* C16: in a frame where a connection's lower or upper keypoint has confidence
\* of 0.1 or less, no curve is drawn for that connection and its spring is
\* left as it was, while every other connection is stepped and drawn.
C16_FaintConnectionSkipped ==
  [][IsFrame /\ Len(springs.spline.poses) > 0 =>
       \A j \in 1..Len(springs.spline.springs) :
         IF Confident(springs.spline, j)
         THEN /\ j <= Len(springs'.curves)
              /\ springs'.spline.springs[j]
                   = Pulled(Retarget(springs.spline.springs[j],
                                     Kp(springs.spline.poses[1],
                                        springs.spline.springs[j].connection.lower),
                                     Kp(springs.spline.poses[1],
                                        springs.spline.springs[j].connection.upper),
                                     springs.spline.schlemerLineLength),
                            springHardness, midPointHardness, springDamping)
         ELSE /\ springs'.spline.springs[j] = springs.spline.springs[j]
              /\ \A k \in 1..Len(springs'.curves) :
                   springs'.curves[k] # drawSplines(springs'.spline)[j]]_vars

C20_TrailCountAtMost300 ==
  /\ sensors.sensorTrailCount <= 300
  /\ viz.trailMaxFrames <= 300

(***************************************************************************)
(* Claims about the calibrated stick length, checked under SpecLength.     *)
(***************************************************************************)
\* C18: once the stick length is calibrated (not 0), no detector callback and
\* no frame changes the sketch's schlemerLineLength or the visualizer's; only
\* the keys R and K do.
C18_LengthKeptUntilRecalibrated ==
  [][(schlemerLineLength # 0 /\ (DetectLength \/ DrawFrame)) =>
       /\ schlemerLineLength' = schlemerLineLength
       /\ viz'.schlemerLineLength = viz.schlemerLineLength]_vars

\* A person of another height has been reported and drawn after calibration.
C18_Witness ==
  /\ schlemerLineLength # 0
  /\ viz.schlemerLineLength = schlemerLineLength
  /\ Len(poses) > 0
  /\ Kp(poses[1], 0).confidence > ConfThreshold
  /\ NoseToAnkle(Kp(poses[1], 0), AnklePoint(Kp(poses[1], 15), Kp(poses[1], 16)))
       # schlemerLineLength
  /\ drawn.frame

(***************************************************************************)
(* Claims about the trail while the sensors are idle, checked under        *)
(* SpecIdle.                                                               *)
(***************************************************************************)
\* C19: while no active, calibrated sensor reports motion (no sensor, motion
\* level 0, or a combined XY motion below 100), no frame captures a trail
\* snapshot, however many frames that lasts and also with the trail on.
C19_NoCaptureWhileIdle ==
  (drawn.frame /\ ~sensors.moving) => ~drawn.captureInvoked

(***************************************************************************)
(* Claims about ClearRedSchlemerVisualizer, checked under SpecTrail.       *)
(***************************************************************************)
\* C21: for a ClearRedSchlemerVisualizer, after any T key presses, trail
\* parameter updates, pose updates and draws, showSchlemerTrail reads false,
\* trailHistory is empty, trailInterval and trailMaxFrames are the
\* constructor's 3 and 60, and a frame draws the current sticks and no trail.
C21_ClearHasNoTrail ==
  viz.kind = "clear" =>
    /\ ~GetShowTrail(viz)
    /\ viz.trailHistory = <<>>
    /\ viz.trailInterval = DefaultTrailInterval
    /\ viz.trailMaxFrames = DefaultTrailMaxFrames
    /\ drawn.trail = <<>>
    /\ ~drawn.captureInvoked
    /\ drawn.frame => drawn.sticks = drawSchlemerSticks(viz.schlemerLineLength, poses)

C21_Witness ==
  /\ viz.kind = "clear"
  /\ drawn.frame
  /\ Len(drawn.sticks) > 0

(***************************************************************************)
(* Claims about the choice of the most dynamic sensor, under SpecSelect.   *)
(***************************************************************************)
\* The sensors that are active and have finished calibrating.
ActiveCalibrated(sensorData) ==
  {i \in DOMAIN sensorData : isActive(sensorData[i]) /\ ~sensorData[i].calibrating}

\* C22: after updateTrailParameters, the sensor chosen is active and
\* calibrated and no active, calibrated sensor has a greater motion level;
\* no sensor is chosen when no active, calibrated sensor has a motion level
\* above 0.
C22_MostDynamicAmongEligible ==
  sensors.framed =>
    LET sensorData == sensors.sensorData
        chosen == sensors.mostDynamicSensor
    IN  IF \E i \in ActiveCalibrated(sensorData) : sensorData[i].motion > 0
        THEN /\ chosen.found
             /\ chosen.id \in ActiveCalibrated(sensorData)
             /\ \A i \in ActiveCalibrated(sensorData) :
                  sensorData[i].motion <= sensorData[chosen.id].motion
        ELSE ~chosen.found

\* Sensor 1 has the greater motion level but is not active: sensor 2 is chosen.
C22_Witness ==
  /\ sensors.framed
  /\ DOMAIN sensors.sensorData = SensorIds
  /\ ~sensors.sensorData[1].calibrating /\ ~isActive(sensors.sensorData[1])
  /\ sensors.sensorData[1].motion > sensors.sensorData[2].motion
  /\ sensors.mostDynamicSensor = [found |-> TRUE, id |-> 2]

(***************************************************************************)
(* Claims about the mask editor, checked under SpecEditor.                 *)
(***************************************************************************)
\* C23: whenever mask edit mode is off, loading the mask stored in
\* localStorage gives exactly the maskPoints and maskEnabled in memory; key
\* E changes maskEnabled and leaves maskPoints as they are; key X leaves no
\* points and the mask disabled.
C23_StoredMaskIsCurrent ==
  /\ [](~maskEditMode =>
          loadDetectionMask(storedMask)
            = [maskPoints |-> maskPoints, maskEnabled |-> maskEnabled])
  /\ [][/\ KeyE => maskPoints' = maskPoints /\ maskEnabled' = ~maskEnabled
        /\ KeyX => maskPoints' = <<>> /\ ~maskEnabled']_vars

\* The editor has been left with a mask of one point drawn in it.
C23_Witness ==
  /\ ~maskEditMode
  /\ maskPoints = <<Pt(100, 0)>>
  /\ storedMask = saveDetectionMask(<<Pt(100, 0)>>, maskEnabled)

\* C26: selectedMaskPoint is -1 or an index of maskPoints, in every state
\* that key and mouse events reach.
C26_SelectedPointExists ==
  \/ sketch.selectedMaskPoint = -1
  \/ /\ 0 <= sketch.selectedMaskPoint
     /\ sketch.selectedMaskPoint < Len(maskPoints)

(***************************************************************************)
(* Claims about the choice of visualizer, checked under SpecCycle.         *)
(***************************************************************************)
\* The order White+Trail -> Clear -> Springy+Trail -> White+Trail.
AfterInCycle(kind) ==
  CASE kind = "white" -> "clear"
    [] kind = "clear" -> "springy"
    [] kind = "springy" -> "white"

\* C24: Alt+1 moves canvas 1 one place on in the order White+Trail, Clear,
\* Springy+Trail and leaves canvas 2 alone (and Alt+2 likewise); viz1 is
\* always visualizers1[viz1Index]; in mask edit mode the press changes
\* nothing.
C24_CycleOrder ==
  /\ [](/\ sketch.viz1 = visualizers1[sketch.viz1Index + 1]
        /\ sketch.viz2 = visualizers2[sketch.viz2Index + 1])
  /\ [][/\ KeyAlt1 => IF maskEditMode THEN UNCHANGED vars
                      ELSE /\ sketch'.viz1 = AfterInCycle(sketch.viz1)
                           /\ sketch'.viz2 = sketch.viz2
        /\ KeyAlt2 => IF maskEditMode THEN UNCHANGED vars
                      ELSE /\ sketch'.viz2 = AfterInCycle(sketch.viz2)
                           /\ sketch'.viz1 = sketch.viz1]_vars

(***************************************************************************)
(* Claims about the dual-canvas controller, checked under SpecDual.        *)
(***************************************************************************)
\* C25: a render frame advances trailFrameCounter by at most 1 and the age
\* of every stored snapshot by at most 1, also with the pose visualizer on
\* both visible canvases.  (No snapshot reaches trailMaxFrames within
\* MaxDualFrames frames, so a snapshot keeps its place in trailHistory.)
C25_OneTickPerFrame ==
  [][sketch'.frames = sketch.frames + 1 =>
       LET before == sketch.sharedPoseViz
           after == sketch'.sharedPoseViz
       IN  /\ after.trailFrameCounter <= before.trailFrameCounter + 1
           /\ \A t \in 1..Len(before.trailHistory) :
                t <= Len(after.trailHistory) =>
                  after.trailHistory[t].age <= before.trailHistory[t].age + 1]_vars

(***************************************************************************)
(* Claims about the stick length of the visualizers, under SpecLength.     *)
(***************************************************************************)
\* C27: in every state after setup, through pose callbacks, render frames
\* and keys R and K, every visualizer of either canvas (the one followed is
\* any of them) holds the global schlemerLineLength.
C27_LengthsAgree ==
  viz.schlemerLineLength = schlemerLineLength

(***************************************************************************)
(* Claims about previousPoses, checked under SpecPoses.                    *)
(***************************************************************************)
\* C28: after a gotPoses callback previousPoses is a copy of the smoothed
\* result, taken before the mask filters it: it has as many poses as the
\* detector returned, each at the index the detector gave it, and its
\* content does not depend on the mask, whatever the mask let through to
\* the published poses.
C28_PreviousIsUnfilteredCopy ==
  [][callbacks' = callbacks + 1 =>
       /\ Len(previousPoses') = Len(results')
       /\ previousPoses' = DeepCopy(smoothPoses(results', previousPoses, smoothingFactor))
       /\ poses' = filterPosesByMask(previousPoses', maskEnabled, maskPoints)]_vars

\* The second callback, after the mask rejected a pose of the first which
\* previousPoses kept: fewer poses published than kept, again.
C28_Witness ==
  /\ callbacks = 2
  /\ maskEnabled
  /\ Len(previousPoses) = Len(results)
  /\ Len(poses) < Len(previousPoses)

(***************************************************************************)
(* Claims about the trail with constant parameters, under SpecSteady.      *)
(***************************************************************************)
\* C29: with trailInterval k and trailMaxFrames M constant, trailHistory
\* holds at most ceil(M/k) snapshots, every snapshot has at least one
\* segment, and every age is between 1 and M.
C29_SteadyTrailBounded ==
  /\ Len(viz.trailHistory) * viz.trailInterval <= viz.trailMaxFrames + viz.trailInterval - 1
  /\ \A t \in 1..Len(viz.trailHistory) :
       /\ Len(viz.trailHistory[t].sticks) >= 1
       /\ 1 <= viz.trailHistory[t].age
       /\ viz.trailHistory[t].age <= viz.trailMaxFrames

\* The history is full: ceil(M/k) snapshots, more than one, after a frame.
C29_Witness ==
  /\ drawn.frame
  /\ Len(viz.trailHistory) > 1
  /\ Len(viz.trailHistory) =
       (viz.trailMaxFrames + viz.trailInterval - 1) \div viz.trailInterval

(***************************************************************************)
(* Claims about the calibration of a sensor, checked under SpecCalibrate.  *)
(***************************************************************************)
\* C30: a sensor read from the serial port has motion level 0 until it has
\* 30 samples that are numbers; a sample that is not a number changes no
\* field; the baseline is the mean of the 30 calibration samples; and a
\* sensor that has calibrated stays calibrated with the same baseline,
\* whatever it sends, its registration included.
C30_CalibratedOnce ==
  /\ [](\A id \in DOMAIN sensors.sensorData :
          LET s == sensors.sensorData[id]
          IN  /\ s.calibrationData.length < CalibrationSamples =>
                   s.calibrating /\ s.motion = 0
              /\ SensorUpdate(s, From(id, <<NotANumber>>)[1]) = s
              /\ parseSensorMessage(sensors.sensorData, From(id, <<Registration>>)[1])
                   = sensors.sensorData
              /\ ~s.calibrating =>
                   /\ s.calibrationData.length = CalibrationSamples
                   /\ s.baseX * CalibrationSamples = s.calibrationData.sumX
                   /\ s.baseY * CalibrationSamples = s.calibrationData.sumY
                   /\ s.baseZ * CalibrationSamples = s.calibrationData.sumZ)
  /\ [][\A id \in DOMAIN sensors.sensorData :
          ~sensors.sensorData[id].calibrating =>
            /\ id \in DOMAIN sensors'.sensorData
            /\ ~sensors'.sensorData[id].calibrating
            /\ sensors'.sensorData[id].baseX = sensors.sensorData[id].baseX
            /\ sensors'.sensorData[id].baseY = sensors.sensorData[id].baseY
            /\ sensors'.sensorData[id].baseZ = sensors.sensorData[id].baseZ]_vars

\* A sensor calibrated half lying still and half moved, then in motion.
C30_Witness ==
  \E id \in DOMAIN sensors.sensorData :
    /\ ~sensors.sensorData[id].calibrating
    /\ sensors.sensorData[id].baseX = 30
    /\ sensors.sensorData[id].baseZ = 1300
    /\ sensors.sensorData[id].motion > 0

=============================================================================
